---- MODULE Spec2Model ----
(***************************************************************************)
(* A model of DAZER's layer-addressed parent resolution:                   *)
(*   - get_image_parent (DAZER/dockerhub_api.py), the ancestry resolver;   *)
(*   - get_layers_official_repository and update_official_database         *)
(*     (populate_parent_db.py), which build and synchronise the parent     *)
(*     database against Docker Hub.                                        *)
(* Layer combinations are Python strings: the concatenation of 12          *)
(* character layer ids.  A parent database is a Python dict (insertion     *)
(* ordered), modelled as a sequence of [name, images] entries with         *)
(* pairwise distinct names.                                                *)
(***************************************************************************)
EXTENDS Integers, Sequences, FiniteSets, TLC

VARIABLES
    \* ---- get_image_parent --------------------------------------------
    base_db,        \* the database loaded from the parent file
    repository,     \* the repository the image belongs to
    image_layers,   \* the complete layer combination of the image
    parent,         \* the returned dict: <<>> or [name, tag]
    gpc,            \* "call" before the function ran, "return" after
    \* ---- Docker Hub and the parent database file ---------------------
    hub,            \* per repository, its tags as the tags API lists them
    clock,          \* the current time; every push to the hub advances it
    db_file,        \* the database the parent file parses to
    db_stamp,       \* the timestamp in the parent file's name, 0: no file
    faults,         \* how many requests have failed so far
    changed,        \* a push has reached the hub since the database was built
    db_before,      \* the database the file held when the running pass began
    repository_images,  \* what get_layers_official_repository last returned
    \* ---- update_official_database ------------------------------------
    pc,             \* where the pass is: "idle" when none is running
    parent_db,      \* the database loaded to memory
    repos,          \* list(parent_db.keys()) of line 539
    repo_pos,       \* position in repos of the repository being checked
    new_repository_tags,    \* line 567
    tag_pos,        \* position in new_repository_tags
    n,              \* processed images which have not been updated
    added_image_layers,     \* line 569
    new_image_layers,       \* line 579
    is_image_updated,       \* line 580
    img_pos,        \* position of repository_image in repository_images
    result,         \* the last answer of the tags API for one tag
    new_repositories,       \* line 501: the catalog as it was retrieved
    loaded,         \* whether the last call got past json.loads of line 506
    outcome,        \* how the last call of update_official_database ended
    \* the database file as text
    data,           \* utils.py line 198: the line the file holds
    written,        \* the repositories written to the file so far
    reloaded,       \* json.loads of the line the file holds
    \* ---- verify_duplicates --------------------------------------------
    non_parents,    \* the records whose is_image_parent ended False, as
                    \* <<repository, position>> pairs
    \* ---- get_layers_image and the pull loop of
    \*      get_layers_official_repository -------------------------------
    caller,         \* "image": get_layers_image, "official": lines 256-291
    ppc,            \* "idle", "loop", "stream", "sleep", "returned", "raised"
    retrial,        \* the loop variable of line 177
    layer_ids,      \* fs_layer_ids of line 172
    is_retrieved,   \* line 173
    announced,      \* the ids the stream of the current attempt announced
    ends,           \* how each attempt so far ended, oldest first
    consumed,       \* the events taken from the streams of this call
    slept,          \* the seconds spent in time.sleep
    \* ---- main.py and the choice of the database file -------------------
    files,          \* the database files of one class, in the order of
                    \* os.listdir: [stamp, mtime] each
    parent_file,    \* the file get_most_recent_file returned
    mpc,            \* "off", "select", "selected"
    \* ---- main.py: the downloading thread and the analysis loop ---------
    upstream,       \* per image of Docker Hub: when it was last updated and
                    \* whether the verified database stores its layers
    experiment_type,        \* main.py: arguments.type
    db_last_updated_time,   \* main.py lines 434 and 447-448
    images_type,    \* DownloadingThread.images_type, "None" for parents
    thread_images,  \* DownloadingThread.images
    image_pos,      \* the image of thread_images the thread is at
    downloaded,     \* the images the Docker engine holds (scan_images)
    downloaded_image_layers,    \* main.py line 213: the images whose layers
                    \* the thread stored
    resolved,       \* the calls of get_image_parent: <<image, db_type>>
    analyzed_images,        \* main.py lines 677 and 707: the records
                    \* [name, parent] written to the analysis file
    parents,        \* main.py line 510
    tpc,            \* "off", "main", "started", "running", "storing",
                    \* "ended", "crashed", "finished", "exited"
    thread_exit,    \* DownloadingThread.exit
    \* ---- get_layers_verified_repository -------------------------------
    registry_tags,  \* the tags the registry serves for the repository, in
                    \* the order the pull goes through them
    repo_images,    \* the list `images`
    pull_trial,     \* the loop variable `retrial`
    rpc,            \* "off", "pulling", "streaming", "returned"
    pull_tag,       \* the variable `tag`
    pull_layer_ids, \* the variable `fs_layer_ids`
    stream_tag,     \* the tag of registry_tags whose segment the stream opened last
    stream_tok      \* the layer lines streamed for it; NoSegment, NoLayerLine

gvars == <<base_db, repository, image_layers, parent, gpc>>

hvars == <<hub, clock, db_file, db_stamp, faults, changed, db_before, repository_images>>

uvars == <<pc, parent_db, repos, repo_pos, new_repository_tags, tag_pos, n,
           added_image_layers, new_image_layers, is_image_updated, img_pos, result,
           new_repositories, loaded, outcome>>

fvars == <<data, written, reloaded>>

dvars == <<non_parents>>

lvars == <<caller, ppc, retrial, layer_ids, is_retrieved, announced, ends, consumed,
           slept>>

mvars == <<files, parent_file, mpc>>

tvars == <<upstream, experiment_type, db_last_updated_time, images_type, thread_images,
           image_pos, downloaded, downloaded_image_layers, resolved, analyzed_images,
           parents, tpc, thread_exit>>

rvars == <<registry_tags, repo_images, pull_trial, rpc, pull_tag, pull_layer_ids,
           stream_tag, stream_tok>>

vars == <<gvars, hvars, uvars, fvars, dvars, lvars, mvars, tvars, rvars>>

------------------------------------------------------------------------------
(* Python helpers *)

Min(a, b) == IF a < b THEN a ELSE b

Range(s) == {s[i] : i \in 1..Len(s)}

\* list.index(x): the first position holding x, 0 when absent (ValueError)
IndexOf(s, x) ==
    IF \E i \in 1..Len(s) : s[i] = x
    THEN CHOOSE i \in 1..Len(s) : s[i] = x /\ \A j \in 1..(i - 1) : s[j] # x
    ELSE 0

\* s[:i-1] + s[i:], the list without its element at (1-based) position i
RemoveAt(s, i) == [k \in 1..(Len(s) - 1) |-> IF k < i THEN s[k] ELSE s[k + 1]]

\* list(db.keys())
Keys(db) == [i \in 1..Len(db) |-> db[i].name]

\* db[repo]
Images(db, repo) == db[IndexOf(Keys(db), repo)].images

------------------------------------------------------------------------------
(* Bounds and input sets *)

\* the most image records a database given to get_image_parent holds
MaxRecs == 2

\* the events taken from the streams of one call of get_layers_image
MaxLines == 3

\* the database files of one class, their timestamps and modification times
MaxFiles == 3

\* layer ids as Docker prints them: 12 characters each
Tokens == {"aaaaaaaaaaaa", "bbbbbbbbbbbb"}

\* layer combinations of one, two and three layer ids
LayerSeqs ==
    Tokens \cup {x \o y : x \in Tokens, y \in Tokens}
           \cup {x \o y \o z : x \in Tokens, y \in Tokens, z \in Tokens}

Repos == {"redis", "mongo", "nginx"}

\* the repositories get_image_parent is called for; "ubuntu" is in no database
Owners == {"redis", "ubuntu"}

\* the official repositories of the hub, their tags and the layer
\* combinations pushed under them
CatalogOrder == <<"redis", "mongo">>

HubRepos == Range(CatalogOrder)

\* the repository whose tags move while the others stay as they are
SyncRepos == {CatalogOrder[1]}

SyncTags == {"6", "7"}

SyncLayers == {"aaaaaaaaaaaa", "aaaaaaaaaaaabbbbbbbbbbbb"}

\* the most pushes to the hub in one run
MaxPushes == 3

\* the most failed requests in one run
MaxFaults == 1

------------------------------------------------------------------------------
(* get_image_parent, DAZER/dockerhub_api.py *)

image_id_length == 12

\* a mutant of image_ids: the layer combination is never cut
image_ids_uncut(layers) == <<layers>>

\* line 715: image_layers cut into pieces of image_id_length characters
image_ids(layers) ==
    [k \in 1..((Len(layers) + image_id_length - 1) \div image_id_length) |->
        SubSeq(layers, (k - 1) * image_id_length + 1,
                       Min(k * image_id_length, Len(layers)))]

\* a mutant of Candidates: the passed repository is not taken out
CandidatesAllKeys(db, repo) == Keys(db)

\* lines 734-742: all the repositories apart from the passed one; when the
\* passed one is no key, index() raises, the bare except swallows it and
\* the list keeps every key
Candidates(db, repo) ==
    LET keys == Keys(db)
        index == IndexOf(keys, repo)
    IN  IF index = 0 THEN keys ELSE RemoveAt(keys, index)

\* a mutant of ScanImages: only the first record of a repository is compared
ScanImagesFirstOnly(images, i, repo, current_layers, par) ==
    IF i = 1 /\ Len(images) >= 1 /\ current_layers = images[1].fs_layers
    THEN [name |-> repo, tag |-> images[1].image_tag]
    ELSE par

\* lines 751-758: the records of one repository, in order
RECURSIVE ScanImages(_, _, _, _, _)
ScanImages(images, i, repo, current_layers, par) ==
    IF i > Len(images) THEN par
    ELSE ScanImages(images, i + 1, repo, current_layers,
                    IF current_layers = images[i].fs_layers
                    THEN [name |-> repo, tag |-> images[i].image_tag]
                    ELSE par)

\* a mutant of ScanRepos: the candidate repositories are gone through from
\* the last key to the first
RECURSIVE ScanReposBackwards(_, _, _, _, _)
ScanReposBackwards(db, repositories, k, current_layers, par) ==
    IF k > Len(repositories) THEN par
    ELSE ScanReposBackwards(db, repositories, k + 1, current_layers,
                   ScanImages(Images(db, repositories[Len(repositories) + 1 - k]), 1,
                              repositories[Len(repositories) + 1 - k],
                              current_layers, par))

\* lines 750-758: the candidate repositories, in key order
RECURSIVE ScanRepos(_, _, _, _, _)
ScanRepos(db, repositories, k, current_layers, par) ==
    IF k > Len(repositories) THEN par
    ELSE ScanRepos(db, repositories, k + 1, current_layers,
                   ScanImages(Images(db, repositories[k]), 1, repositories[k],
                              current_layers, par))

\* a mutant of WalkLayers: the walk stops at the first match
RECURSIVE WalkLayersFirstHit(_, _, _, _, _, _)
WalkLayersFirstHit(db, repositories, ids, k, current_layers, par) ==
    IF k > Len(ids) \/ par # <<>> THEN par
    ELSE WalkLayersFirstHit(db, repositories, ids, k + 1, current_layers \o ids[k],
                    ScanRepos(db, repositories, 1, current_layers \o ids[k], par))

\* lines 744-760: the walk over the layer ids, the prefix growing by one id
\* each round; a later match overwrites an earlier one
RECURSIVE WalkLayers(_, _, _, _, _, _)
WalkLayers(db, repositories, ids, k, current_layers, par) ==
    IF k > Len(ids) THEN par
    ELSE WalkLayers(db, repositories, ids, k + 1, current_layers \o ids[k],
                    ScanRepos(db, repositories, 1, current_layers \o ids[k], par))

get_image_parent(repo, layers, db) ==
    WalkLayers(db, Candidates(db, repo), image_ids(layers), 1, "", <<>>)

------------------------------------------------------------------------------
(* The databases get_image_parent is run against *)

\* the k-th record of a repository carries the tag "k"
ImageRecord(layers, k) ==
    [fs_layers |-> layers, image_tag |-> ToString(k), last_updated |-> 0, created |-> 0]

ImageLists(cap) ==
    UNION {{[k \in 1..m |-> ImageRecord(f[k], k)] : f \in [1..m -> LayerSeqs]} : m \in 1..cap}

\* every database of at most cap records: distinct keys in any order, every
\* repository with at least one record
RECURSIVE Databases(_, _)
Databases(cap, used) ==
    {<<>>} \cup
    UNION {UNION {{<<[name |-> repo, images |-> imgs]>> \o rest :
                        rest \in Databases(cap - Len(imgs), used \cup {repo})} :
                  imgs \in ImageLists(cap)} :
           repo \in Repos \ used}

\* the answers of the tags API for one tag: the request failed, the tag
\* object has no 'last_updated', or it has one
NoResult == [kind |-> "failed", last_updated |-> 0]

\* no database file, an empty hub, no pass running
HubQuiet ==
    /\ hub = [repo \in HubRepos |-> <<>>]
    /\ clock = 0
    /\ db_file = <<>>
    /\ db_stamp = 0
    /\ faults = 0
    /\ changed = FALSE
    /\ db_before = <<>>
    /\ repository_images = <<>>

UpdateQuiet ==
    /\ pc = "idle"
    /\ parent_db = <<>>
    /\ repos = <<>>
    /\ repo_pos = 0
    /\ new_repository_tags = <<>>
    /\ tag_pos = 0
    /\ n = 0
    /\ added_image_layers = {}
    /\ new_image_layers = ""
    /\ is_image_updated = FALSE
    /\ img_pos = 0
    /\ result = NoResult
    /\ new_repositories = <<>>
    /\ loaded = FALSE
    /\ outcome = "none"

ParentQuiet ==
    /\ base_db = <<>>
    /\ repository = ""
    /\ image_layers = ""
    /\ parent = <<>>
    /\ gpc = "off"

\* no file text under consideration
FileQuiet ==
    /\ data = ""
    /\ written = 0
    /\ reloaded = [ok |-> FALSE, db |-> <<>>]

\* verify_duplicates has not run
DuplicatesQuiet == non_parents = {}

\* no database file is being chosen
NoFile == [stamp |-> 0, mtime |-> 0]

MainQuiet ==
    /\ files = <<>>
    /\ parent_file = NoFile
    /\ mpc = "off"

\* no experiment is running
ThreadQuiet ==
    /\ upstream = <<>>
    /\ experiment_type = ""
    /\ db_last_updated_time = 0
    /\ images_type = ""
    /\ thread_images = <<>>
    /\ image_pos = 0
    /\ downloaded = {}
    /\ downloaded_image_layers = {}
    /\ resolved = {}
    /\ analyzed_images = {}
    /\ parents = <<>>
    /\ tpc = "off"
    /\ thread_exit = FALSE

\* no repository is being pulled
RepositoryQuiet ==
    /\ registry_tags = <<>>
    /\ repo_images = <<>>
    /\ pull_trial = 0
    /\ rpc = "off"
    /\ pull_tag = ""
    /\ pull_layer_ids = ""
    /\ stream_tag = 0
    /\ stream_tok = 0 - 1

\* no image is being pulled
PullQuiet ==
    /\ caller = "image"
    /\ ppc = "idle"
    /\ retrial = 0
    /\ layer_ids = ""
    /\ is_retrieved = FALSE
    /\ announced = <<>>
    /\ ends = <<>>
    /\ consumed = 0
    /\ slept = 0

InitParent ==
    /\ HubQuiet
    /\ UpdateQuiet
    /\ FileQuiet
    /\ DuplicatesQuiet
    /\ PullQuiet
    /\ MainQuiet
    /\ ThreadQuiet
    /\ RepositoryQuiet
    /\ base_db \in Databases(MaxRecs, {})
    /\ repository \in Owners
    /\ image_layers \in LayerSeqs
    /\ parent = <<>>
    /\ gpc = "call"

GetImageParent ==
    /\ gpc = "call"
    /\ parent' = get_image_parent(repository, image_layers, base_db)
    /\ gpc' = "return"
    /\ UNCHANGED <<base_db, repository, image_layers, hvars, uvars, fvars, dvars, lvars, mvars, tvars, rvars>>

NextParent == GetImageParent

SpecParent == InitParent /\ [][NextParent]_vars

------------------------------------------------------------------------------
(* get_image_parent on layer combinations of other widths than 12 *)

\* layer ids of three characters and of twelve
ShortTokens == <<"aaa", "bbb", "ccc">>

LongTokens == <<"aaaaaaaaaaaa", "bbbbbbbbbbbb", "cccccccccccc">>

\* the combinations of the first id, the first two and the three of them
Stacks(ids) == {ids[1], ids[1] \o ids[2], ids[1] \o ids[2] \o ids[3]}

ExampleLayers == Stacks(ShortTokens) \cup Stacks(LongTokens)

\* the databases of two repositories with one record each
ExampleDatabases ==
    {<<[name |-> pair[1], images |-> <<ImageRecord(stacks[1], 1)>>],
       [name |-> pair[2], images |-> <<ImageRecord(stacks[2], 1)>>]>> :
        pair \in {both \in Repos \X Repos : both[1] # both[2]},
        stacks \in ExampleLayers \X ExampleLayers}

InitExample ==
    /\ HubQuiet
    /\ UpdateQuiet
    /\ FileQuiet
    /\ DuplicatesQuiet
    /\ PullQuiet
    /\ MainQuiet
    /\ ThreadQuiet
    /\ RepositoryQuiet
    /\ base_db \in ExampleDatabases
    /\ repository \in Repos \cup Owners
    /\ image_layers \in ExampleLayers
    /\ parent = <<>>
    /\ gpc = "call"

SpecExample == InitExample /\ [][NextParent]_vars

------------------------------------------------------------------------------
(* Docker Hub: the tags API, the pull of an image, Microbadger *)

\* get_repository_tags_query_v2: the names of a repository's tags, the last
\* pushed first (get_latest_versioned_tag takes the first as the last pushed)
TagNames(tagobjs) == [k \in 1..Len(tagobjs) |-> tagobjs[k].name]

TagObject(tagobjs, tag) == tagobjs[IndexOf(TagNames(tagobjs), tag)]

\* what a request may still do: fail only while the run's budget lasts
MayFail == faults < MaxFaults

\* get_repository_tag_query_v2(repo, tag): the tag object with its
\* 'last_updated', the tag object without one, or "" when the request failed
Answers(tagobjs, tag) ==
    {[kind |-> "ok", last_updated |-> TagObject(tagobjs, tag).last_updated]}
    \cup (IF MayFail THEN {NoResult, [kind |-> "null", last_updated |-> 0]} ELSE {})

\* get_layers_image(repo, tag): the layer combination, or "" when the pull failed
Extracted(tagobjs, tag) ==
    {TagObject(tagobjs, tag).layers} \cup (IF MayFail THEN {""} ELSE {})

\* a push of `layers` under `tag`: the tag becomes the last pushed one;
\* Microbadger lists the tag (created > 0) or does not (created = 0)
Push(repo, tag, layers, listed) ==
    /\ pc = "idle"
    /\ clock < MaxPushes
    /\ clock' = clock + 1
    /\ hub' = [hub EXCEPT ![repo] =
                <<[name |-> tag, layers |-> layers, last_updated |-> clock + 1,
                   created |-> IF listed THEN clock + 1 ELSE 0]>>
                \o SelectSeq(hub[repo], LAMBDA o : o.name # tag)]
    /\ changed' = TRUE
    /\ UNCHANGED <<db_file, db_stamp, faults, db_before, repository_images, uvars, gvars, fvars, dvars, lvars, mvars, tvars, rvars>>

\* get_official_images: the repositories that have a tag, in catalog order
Catalog == SelectSeq(CatalogOrder, LAMBDA repo : hub[repo] # <<>>)

------------------------------------------------------------------------------
(* get_layers_official_repository, populate_parent_db.py *)

\* what happens to the requests made for one tag
Outcomes == {"ok", "nolayers", "noquery", "nulltime"}

\* lines 293-300: whether the layer combination was already retrieved via
\* another tag
AlreadyRetrievedNever(images, fs_layer_ids) == FALSE

AlreadyRetrieved(images, fs_layer_ids) ==
    \E j \in 1..Len(images) : images[j].fs_layers = fs_layer_ids

\* a mutant of HasLayers: a record is made of no layers too
HasLayersAlways(fs_layer_ids) == TRUE

\* line 291: if fs_layer_ids
HasLayers(fs_layer_ids) == fs_layer_ids # ""

\* lines 252-329, one round per tag in the order of the tags API
RECURSIVE CollectImages(_, _, _, _)
CollectImages(tagobjs, out, k, images) ==
    IF k > Len(tagobjs) THEN images
    ELSE LET o == tagobjs[k]
             fs_layer_ids == IF out[o.name] = "nolayers" THEN "" ELSE o.layers
             last_updated == IF out[o.name] = "nulltime" THEN 0 ELSE o.last_updated
             stored == /\ HasLayers(fs_layer_ids)
                       /\ ~AlreadyRetrieved(images, fs_layer_ids)
                       /\ out[o.name] # "noquery"
                       /\ o.created # 0
         IN  CollectImages(tagobjs, out, k + 1,
                 IF stored
                 THEN Append(images, [fs_layers |-> fs_layer_ids, image_tag |-> o.name,
                                      last_updated |-> last_updated, created |-> o.created])
                 ELSE images)

get_layers_official_repository(tagobjs, out) == CollectImages(tagobjs, out, 1, <<>>)

\* the number of tags of a repository whose requests fail under `out`
FailedTags(tagobjs, out) == Cardinality({k \in 1..Len(tagobjs) : out[tagobjs[k].name] # "ok"})

\* the failed tags of the repositories catalog[k..] under `outs`
RECURSIVE FailedIn(_, _, _)
FailedIn(catalog, outs, k) ==
    IF k > Len(catalog) THEN 0
    ELSE FailedTags(hub[catalog[k]], outs[catalog[k]]) + FailedIn(catalog, outs, k + 1)

\* the outcomes the budget of failures allows for the requests made for
\* the tags of the repositories of `catalog`
OutcomesFor(catalog) ==
    {outs \in [HubRepos -> [SyncTags -> Outcomes]] :
        /\ \A repo \in HubRepos : \A tag \in SyncTags :
              (repo \notin Range(catalog) \/ tag \notin Range(TagNames(hub[repo])))
                  => outs[repo][tag] = "ok"
        /\ faults + FailedIn(catalog, outs, 1) <= MaxFaults}

\* a mutant of write_dict_element_to_file: the element does not reach the file
write_dict_element_nowhere(file, key, value) == file

\* utils.write_dict_element_to_file: the element is added at the end of the
\* object the file holds
write_dict_element_to_file(file, key, value) == Append(file, [name |-> key, images |-> value])

\* parent_db[key] = value
SetItem(db, key, value) ==
    IF IndexOf(Keys(db), key) = 0
    THEN Append(db, [name |-> key, images |-> value])
    ELSE [k \in 1..Len(db) |-> IF db[k].name = key THEN [name |-> key, images |-> value] ELSE db[k]]

\* lines 524-533 and 978-985: every repository of `catalog` is retrieved and,
\* when it has images, written to the file and put into the database
RECURSIVE RetrieveAll(_, _, _, _)
RetrieveAll(catalog, outs, k, db) ==
    IF k > Len(catalog) THEN db
    ELSE LET images == get_layers_official_repository(hub[catalog[k]], outs[catalog[k]])
         IN  RetrieveAll(catalog, outs, k + 1,
                         IF images # <<>> THEN SetItem(db, catalog[k], images) ELSE db)

\* the same for the file, which write_dict_element_to_file extends
RECURSIVE WriteAll(_, _, _, _)
WriteAll(catalog, outs, k, file) ==
    IF k > Len(catalog) THEN file
    ELSE LET images == get_layers_official_repository(hub[catalog[k]], outs[catalog[k]])
         IN  WriteAll(catalog, outs, k + 1,
                      IF images # <<>>
                      THEN write_dict_element_to_file(file, catalog[k], images)
                      ELSE file)

\* the return value of the last call get_layers_official_repository
LastRetrieved(catalog, outs) ==
    get_layers_official_repository(hub[catalog[Len(catalog)]], outs[catalog[Len(catalog)]])

\* main, lines 942-985: no database file exists and the database is
\* populated from scratch
Populate ==
    /\ pc = "idle"
    /\ db_stamp = 0
    /\ Catalog # <<>>
    /\ \E outs \in OutcomesFor(Catalog) :
        /\ repository_images' = LastRetrieved(Catalog, outs)
        /\ db_file' = WriteAll(Catalog, outs, 1, <<>>)
        /\ faults' = faults + FailedIn(Catalog, outs, 1)
    /\ db_stamp' = clock
    /\ changed' = FALSE
    /\ UNCHANGED <<hub, clock, db_before, uvars, gvars, fvars, dvars, lvars, mvars, tvars, rvars>>

------------------------------------------------------------------------------
(* update_official_database, populate_parent_db.py *)

threshold == 30

non_updated_threshold == 30

\* what the function leaves behind when it returns: nothing in memory
ReturnFromUpdate ==
    /\ pc' = "idle"
    /\ parent_db' = <<>>
    /\ repos' = <<>>
    /\ repo_pos' = 0
    /\ new_repository_tags' = <<>>
    /\ tag_pos' = 0
    /\ n' = 0
    /\ added_image_layers' = {}
    /\ new_image_layers' = ""
    /\ is_image_updated' = FALSE
    /\ img_pos' = 0
    /\ db_before' = <<>>
    /\ new_repositories' = <<>>
    /\ outcome' = "returned"
    /\ UNCHANGED loaded

\* a mutant of Abort: the file is renamed with the current time all the same
AbortRenamed ==
    /\ ReturnFromUpdate
    /\ db_stamp' = clock
    /\ UNCHANGED <<hub, clock, db_file, changed, repository_images>>

\* lines 664-665: an exception raised anywhere in the pass is logged and the
\* function returns; the file keeps what was last written to it
Abort ==
    /\ ReturnFromUpdate
    /\ UNCHANGED <<hub, clock, db_file, db_stamp, changed, repository_images>>

\* the running time of one request: it fails or not
Spend(res) == faults' = faults + (IF res.kind = "ok" THEN 0 ELSE 1)

\* lines 508-513: the catalog request failed and the process exits
UpdateNoCatalog ==
    /\ pc = "idle"
    /\ db_stamp # 0
    /\ MayFail
    /\ faults' = faults + 1
    /\ loaded' = TRUE
    /\ outcome' = "exited"
    /\ UNCHANGED <<hub, clock, db_file, db_stamp, changed, db_before, repository_images,
                   pc, parent_db, repos, repo_pos, new_repository_tags, tag_pos, n,
                   added_image_layers, new_image_layers, is_image_updated, img_pos,
                   result, new_repositories, gvars, fvars, dvars, lvars, mvars, tvars, rvars>>

\* get_official_images, lines 405-411: a repository whose latest tag is not
\* retrieved is left out of the catalog; the catalogs one call may return
RetrievedCatalogs ==
    {SelectSeq(Catalog, LAMBDA repo : repo \in kept) :
        kept \in {some \in SUBSET Range(Catalog) :
                    /\ some # {}
                    /\ faults + Cardinality(Range(Catalog) \ some) <= MaxFaults}}

\* lines 517-520: the brand new repositories, when the catalog is longer
\* than the database has keys
NewRepositories(catalog, db) ==
    IF Len(catalog) > Len(db)
    THEN SelectSeq(catalog, LAMBDA repo : repo \notin Range(Keys(db)))
    ELSE <<>>

\* list(set(...)): the orders a set may be listed in
Listings(s) ==
    {q \in UNION {[1..Len(s) -> Range(s)]} : \A x \in Range(s) : \E k \in 1..Len(s) : q[k] = x}

\* lines 501-539: the catalog is retrieved, the file is loaded, the new
\* repositories are retrieved, written to the file and put into the database
StartUpdate ==
    /\ pc = "idle"
    /\ db_stamp # 0
    /\ \E catalog \in RetrievedCatalogs :
       \E brand_new \in Listings(NewRepositories(catalog, db_file)) :
       \E outs \in OutcomesFor(brand_new) :
            /\ faults + (Len(Catalog) - Len(catalog)) + FailedIn(brand_new, outs, 1)
                    <= MaxFaults
            /\ new_repositories' = catalog
            /\ parent_db' = RetrieveAll(brand_new, outs, 1, db_file)
            /\ db_file' = WriteAll(brand_new, outs, 1, db_file)
            /\ repository_images' = IF brand_new = <<>> THEN repository_images
                                    ELSE LastRetrieved(brand_new, outs)
            /\ faults' = faults + (Len(Catalog) - Len(catalog))
                                + FailedIn(brand_new, outs, 1)
    /\ db_before' = db_file
    /\ loaded' = TRUE
    /\ outcome' = "running"
    /\ repos' = Keys(parent_db')
    /\ repo_pos' = 1
    /\ pc' = IF parent_db' = <<>> THEN "rename" ELSE "check"
    /\ UNCHANGED <<hub, clock, db_stamp, changed, new_repository_tags, tag_pos, n,
                   added_image_layers, new_image_layers, is_image_updated, img_pos,
                   result, gvars, fvars, dvars, lvars, mvars, tvars, rvars>>

\* a mutant of LastUpdatedTime: the time of the first record
LastUpdatedTimeFirst(images, k, cnt, best) ==
    IF images = <<>> THEN 0 ELSE images[1].last_updated

\* a mutant of LastUpdatedTime: every record read counts towards the threshold
RECURSIVE LastUpdatedTimeWindow(_, _, _, _)
LastUpdatedTimeWindow(images, k, cnt, best) ==
    IF k > Len(images) \/ cnt >= threshold THEN best
    ELSE LastUpdatedTimeWindow(images, k + 1, cnt + 1,
                               IF images[k].last_updated > best
                               THEN images[k].last_updated ELSE best)

\* lines 549-561: the last known update of a repository
RECURSIVE LastUpdatedTime(_, _, _, _)
LastUpdatedTime(images, k, cnt, best) ==
    IF k > Len(images) \/ cnt >= threshold THEN best
    ELSE IF images[k].last_updated > best
         THEN LastUpdatedTime(images, k + 1, cnt, images[k].last_updated)
         ELSE LastUpdatedTime(images, k + 1, cnt + 1, best)

\* the repository being checked and the tag being processed
CurRepo == repos[repo_pos]

CurTag == new_repository_tags[tag_pos]

CurImages == Images(parent_db, CurRepo)

\* lines 540-567 and 648-649: is the repository stale?
CheckRepository ==
    /\ pc = "check"
    /\ LET tags == TagNames(hub[CurRepo])
       IN  \E res \in Answers(hub[CurRepo], tags[1]) :
            /\ result' = res
            /\ Spend(res)
            /\ IF res.kind # "ok"
               THEN \* "".get or strptime(None) raises
                    /\ Abort
                    /\ UNCHANGED <<gvars, fvars, dvars, lvars, mvars, tvars, rvars>>
               ELSE /\ IF res.last_updated > LastUpdatedTime(CurImages, 1, 0, 0)
                       THEN /\ pc' = "tags"
                            /\ new_repository_tags' = tags
                            /\ tag_pos' = 1
                       ELSE /\ pc' = "write"
                            /\ UNCHANGED <<new_repository_tags, tag_pos>>
                    /\ n' = 0
                    /\ added_image_layers' = {}
                    /\ UNCHANGED <<hub, clock, db_file, db_stamp, changed, db_before,
                                   repository_images, parent_db, repos, repo_pos,
                                   new_repositories, loaded, outcome,
                                   new_image_layers, is_image_updated, img_pos, gvars, fvars, dvars, lvars, mvars, tvars, rvars>>

\* a mutant of TooOld: the loop over the tags never breaks
TooOldNever(cnt) == FALSE

\* lines 575-577: the remaining images are too old to have been updated
TooOld(cnt) == cnt >= non_updated_threshold

\* lines 573-582: the next tag of the repository is retrieved
NextTag ==
    /\ pc = "tags"
    /\ IF tag_pos > Len(new_repository_tags) \/ TooOld(n)
       THEN /\ pc' = "write"
            /\ UNCHANGED <<faults, tag_pos, new_image_layers, is_image_updated, img_pos>>
       ELSE \E layers \in Extracted(hub[CurRepo], CurTag) :
            /\ new_image_layers' = layers
            /\ is_image_updated' = FALSE
            /\ faults' = faults + (IF layers = "" THEN 1 ELSE 0)
            /\ IF layers # ""
               THEN pc' = "images" /\ img_pos' = 1 /\ UNCHANGED tag_pos
               ELSE pc' = "tags" /\ tag_pos' = tag_pos + 1 /\ UNCHANGED img_pos
    /\ UNCHANGED <<hub, clock, db_file, db_stamp, changed, db_before, repository_images,
                   parent_db, repos, repo_pos, new_repository_tags, n,
                   added_image_layers, result, new_repositories, loaded, outcome,
                   gvars, fvars, dvars, lvars, mvars, tvars, rvars>>

\* parent_db[repo][index] = record
SetImage(db, repo, index, record) ==
    SetItem(db, repo, [Images(db, repo) EXCEPT ![index] = record])

\* a mutant of Refreshed: the timestamp is taken over whatever its value
RefreshedAlways(image, res) ==
    IF res.kind = "ok" THEN [image EXCEPT !.last_updated = res.last_updated] ELSE image

\* lines 590-599: the record of an image found in the database takes the
\* tag's timestamp when that is newer
Refreshed(image, res) ==
    IF res.kind = "ok" /\ res.last_updated > image.last_updated
    THEN [image EXCEPT !.last_updated = res.last_updated]
    ELSE image

\* a mutant of Replaced: the timestamp is updated and the layers are not
ReplacedTimeOnly(image, layers, res) == [image EXCEPT !.last_updated = res.last_updated]

\* lines 619-621: the record of a tag that has another signature
Replaced(image, layers, res) ==
    [image EXCEPT !.fs_layers = layers, !.last_updated = res.last_updated]

\* a mutant of AddedImage: the brand new image overwrites the last record
AddedImageOverLast(images, layers, tag, updated_time, created) ==
    IF images = <<>> THEN <<>>
    ELSE [images EXCEPT ![Len(images)] =
            [fs_layers |-> layers, image_tag |-> tag,
             last_updated |-> updated_time, created |-> created]]

\* lines 640-645: the record of a brand new image is appended
AddedImage(images, layers, tag, updated_time, created) ==
    Append(images, [fs_layers |-> layers, image_tag |-> tag,
                    last_updated |-> updated_time, created |-> created])

\* the rounds of the inner loop stay with the repository, the tag and its layers
SameTag ==
    UNCHANGED <<repos, repo_pos, new_repository_tags, tag_pos, new_image_layers,
                new_repositories, loaded, outcome>>

\* lines 583-623: one round of `for repository_image in repository_images`,
\* which walks parent_db[repository] itself by position
CheckImage ==
    /\ pc = "images"
    /\ IF img_pos > Len(CurImages)
       THEN /\ pc' = "add"
            /\ UNCHANGED <<hvars, parent_db, n, added_image_layers, is_image_updated,
                           img_pos, result>>
            /\ SameTag
       ELSE LET repository_image == CurImages[img_pos]
                image_index == IndexOf(CurImages, repository_image)
            IN  IF repository_image.fs_layers = new_image_layers
                THEN \* the image exists in the database
                     \E res \in Answers(hub[CurRepo], CurTag) :
                        /\ result' = res
                        /\ Spend(res)
                        /\ IF res.kind = "failed"
                           THEN Abort
                           ELSE /\ parent_db' = SetImage(parent_db, CurRepo, image_index,
                                                         Refreshed(repository_image, res))
                                /\ is_image_updated' = TRUE
                                /\ n' = n + 1
                                /\ img_pos' = img_pos + 1
                                /\ UNCHANGED <<hub, clock, db_file, db_stamp, changed,
                                               db_before, repository_images, pc,
                                               added_image_layers>>
                                /\ SameTag
                ELSE IF repository_image.image_tag = CurTag
                THEN \* the tag exists in the database with another signature
                     IF new_image_layers \in added_image_layers
                     THEN /\ parent_db' = SetItem(parent_db, CurRepo,
                                                  RemoveAt(CurImages, image_index))
                          /\ img_pos' = img_pos + 1
                          /\ UNCHANGED <<hvars, pc, n, added_image_layers,
                                         is_image_updated, result>>
                          /\ SameTag
                     ELSE \E res \in Answers(hub[CurRepo], CurTag) :
                            /\ result' = res
                            /\ Spend(res)
                            /\ IF res.kind = "failed"
                               THEN Abort
                               ELSE /\ IF res.kind = "ok"
                                       THEN /\ parent_db' =
                                                SetImage(parent_db, CurRepo, image_index,
                                                    Replaced(repository_image,
                                                             new_image_layers, res))
                                            /\ is_image_updated' = TRUE
                                            /\ added_image_layers' =
                                                added_image_layers \cup {new_image_layers}
                                       ELSE UNCHANGED <<parent_db, is_image_updated,
                                                        added_image_layers>>
                                    /\ img_pos' = img_pos + 1
                                    /\ UNCHANGED <<hub, clock, db_file, db_stamp, changed,
                                                   db_before, repository_images, pc, n>>
                                    /\ SameTag
                ELSE /\ img_pos' = img_pos + 1
                     /\ UNCHANGED <<hvars, pc, parent_db, n, added_image_layers,
                                    is_image_updated, result>>
                     /\ SameTag
    /\ UNCHANGED <<gvars, fvars, dvars, lvars, mvars, tvars, rvars>>

\* lines 625-647: the image is brand new
AddImage ==
    /\ pc = "add"
    /\ IF ~is_image_updated /\ new_image_layers \notin added_image_layers
       THEN \E res \in Answers(hub[CurRepo], CurTag) :
            /\ result' = res
            /\ Spend(res)
            /\ IF res.kind = "failed"
               THEN Abort
               ELSE /\ IF res.kind = "ok" /\ TagObject(hub[CurRepo], CurTag).created # 0
                       THEN /\ parent_db' = SetItem(parent_db, CurRepo,
                                    AddedImage(CurImages, new_image_layers, CurTag,
                                               res.last_updated,
                                               TagObject(hub[CurRepo], CurTag).created))
                            /\ added_image_layers' =
                                    added_image_layers \cup {new_image_layers}
                       ELSE UNCHANGED <<parent_db, added_image_layers>>
                    /\ pc' = "tags"
                    /\ tag_pos' = tag_pos + 1
                    /\ UNCHANGED <<hub, clock, db_file, db_stamp, changed, db_before,
                                   repository_images, repos, repo_pos,
                                   new_repositories, loaded, outcome,
                                   new_repository_tags, n, new_image_layers,
                                   is_image_updated, img_pos>>
       ELSE /\ pc' = "tags"
            /\ tag_pos' = tag_pos + 1
            /\ UNCHANGED <<hvars, parent_db, repos, repo_pos, new_repository_tags, n,
                           added_image_layers, new_image_layers, is_image_updated,
                           img_pos, result, new_repositories, loaded, outcome>>
    /\ UNCHANGED <<gvars, fvars, dvars, lvars, mvars, tvars, rvars>>

\* lines 652-654: the results are written back to the file, and the next
\* repository is checked
WriteBack ==
    /\ pc = "write"
    /\ db_file' = parent_db
    /\ repo_pos' = repo_pos + 1
    /\ pc' = IF repo_pos + 1 > Len(repos) THEN "rename" ELSE "check"
    /\ UNCHANGED <<hub, clock, db_stamp, faults, changed, db_before, repository_images,
                   parent_db, repos, new_repository_tags, tag_pos, n,
                   added_image_layers, new_image_layers, is_image_updated, img_pos,
                   result, new_repositories, loaded, outcome, gvars, fvars, dvars, lvars, mvars, tvars, rvars>>

\* lines 657-662: the file is renamed with the current time
Rename ==
    /\ pc = "rename"
    /\ db_stamp' = clock
    /\ changed' = FALSE
    /\ ReturnFromUpdate
    /\ UNCHANGED <<hub, clock, db_file, faults, repository_images, result, gvars, fvars, dvars, lvars, mvars, tvars, rvars>>

InitSync ==
    /\ HubQuiet
    /\ UpdateQuiet
    /\ ParentQuiet
    /\ FileQuiet
    /\ DuplicatesQuiet
    /\ PullQuiet
    /\ MainQuiet
    /\ ThreadQuiet
    /\ RepositoryQuiet

NextSync ==
    \/ \E repo \in SyncRepos, tag \in SyncTags, layers \in SyncLayers, listed \in BOOLEAN :
            Push(repo, tag, layers, listed)
    \/ Populate
    \/ UpdateNoCatalog
    \/ StartUpdate
    \/ CheckRepository
    \/ NextTag
    \/ CheckImage
    \/ AddImage
    \/ WriteBack
    \/ Rename

SpecSync == InitSync /\ [][NextSync]_vars

\* lines 501-506 and 664-665: the file cannot be opened or parsed; the
\* exception is logged by the except clause and the function returns
UpdateUnreadable ==
    /\ pc = "idle"
    /\ db_stamp # 0
    /\ MayFail
    /\ faults' = faults + 1
    /\ loaded' = FALSE
    /\ outcome' = "returned"
    /\ UNCHANGED <<hub, clock, db_file, db_stamp, changed, db_before, repository_images,
                   pc, parent_db, repos, repo_pos, new_repository_tags, tag_pos, n,
                   added_image_layers, new_image_layers, is_image_updated, img_pos,
                   result, new_repositories, gvars, fvars, dvars, lvars, mvars, tvars, rvars>>

\* the tag every repository of the catalog publishes
CatalogTags == {"6"}

\* the passes over a catalog of several repositories
NextCatalog ==
    \/ \E repo \in HubRepos, tag \in CatalogTags, layers \in SyncLayers, listed \in BOOLEAN :
            Push(repo, tag, layers, listed)
    \/ Populate
    \/ UpdateNoCatalog
    \/ UpdateUnreadable
    \/ StartUpdate
    \/ CheckRepository
    \/ NextTag
    \/ CheckImage
    \/ AddImage
    \/ WriteBack
    \/ Rename

SpecCatalog == InitSync /\ [][NextCatalog]_vars

------------------------------------------------------------------------------
(* get_layers_verified_repository and update_verified_database,
   populate_parent_db.py *)

\* lines 371-412: one record per tag the pull of the whole repository goes
\* through; the two times are read from the image that was pulled
VerifiedImages(tagobjs) ==
    [k \in 1..Len(tagobjs) |->
        [fs_layers |-> tagobjs[k].layers, image_tag |-> tagobjs[k].name,
         last_updated |-> tagobjs[k].last_updated, created |-> tagobjs[k].last_updated]]

\* lines 354-479: the records of the repository, or none when every retrial
\* of the pull ended in an APIError (lines 446-454)
get_layers_verified_repository(repo, ok) ==
    IF ok[repo] THEN VerifiedImages(hub[repo]) ELSE <<>>

\* which of the repositories of `catalog` are retrieved, within the budget
\* of failures
VerifiedOutcomesFor(catalog) ==
    {ok \in [HubRepos -> BOOLEAN] :
        /\ \A repo \in HubRepos : repo \notin Range(catalog) => ok[repo]
        /\ faults + Cardinality({repo \in HubRepos : ~ok[repo]}) <= MaxFaults}

FailedRepos(ok) == Cardinality({repo \in HubRepos : ~ok[repo]})

\* lines 704-722 and 975-985: every repository of `catalog` is retrieved
\* and, when it has images, written to the file and put into the database
RECURSIVE VerifiedRetrieveAll(_, _, _, _)
VerifiedRetrieveAll(catalog, ok, k, db) ==
    IF k > Len(catalog) THEN db
    ELSE LET images == get_layers_verified_repository(catalog[k], ok)
         IN  VerifiedRetrieveAll(catalog, ok, k + 1,
                                 IF images # <<>> THEN SetItem(db, catalog[k], images) ELSE db)

\* main, lines 942-985, for the type "verified"
VerifiedPopulate ==
    /\ pc = "idle"
    /\ db_stamp = 0
    /\ Catalog # <<>>
    /\ \E ok \in VerifiedOutcomesFor(Catalog) :
        /\ repository_images' = get_layers_verified_repository(Catalog[Len(Catalog)], ok)
        /\ db_file' = VerifiedRetrieveAll(Catalog, ok, 1, <<>>)
        /\ faults' = faults + FailedRepos(ok)
    /\ db_stamp' = clock
    /\ changed' = FALSE
    /\ UNCHANGED <<hub, clock, db_before, uvars, gvars, fvars, dvars, lvars, mvars, tvars, rvars>>

\* lines 680-727: the catalog is retrieved, the file is loaded, the new
\* repositories are retrieved, written to the file and put into the database
VerifiedStart ==
    /\ pc = "idle"
    /\ db_stamp # 0
    /\ \E catalog \in RetrievedCatalogs :
       \E brand_new \in Listings(NewRepositories(catalog, db_file)) :
       \E ok \in VerifiedOutcomesFor(brand_new) :
            /\ faults + (Len(Catalog) - Len(catalog)) + FailedRepos(ok) <= MaxFaults
            /\ new_repositories' = catalog
            /\ parent_db' = VerifiedRetrieveAll(brand_new, ok, 1, db_file)
            /\ db_file' = parent_db'
            /\ repository_images' =
                    IF brand_new = <<>> THEN repository_images
                    ELSE get_layers_verified_repository(brand_new[Len(brand_new)], ok)
            /\ faults' = faults + (Len(Catalog) - Len(catalog)) + FailedRepos(ok)
    /\ db_before' = db_file
    /\ loaded' = TRUE
    /\ outcome' = "running"
    /\ repos' = Keys(parent_db')
    /\ repo_pos' = 1
    /\ pc' = IF parent_db' = <<>> THEN "vrename" ELSE "vcheck"
    /\ UNCHANGED <<hub, clock, db_stamp, changed, new_repository_tags, tag_pos, n,
                   added_image_layers, new_image_layers, is_image_updated, img_pos,
                   result, gvars, fvars, dvars, lvars, mvars, tvars, rvars>>

\* lines 772-779: the latest image is in the database, under its tag or
\* under its layers
is_in_db(images, latest_tag, layers) ==
    \E j \in 1..Len(images) :
        images[j].image_tag = latest_tag \/ images[j].fs_layers = layers

\* the loop of line 731 moves to the next repository
NextRepository ==
    /\ repo_pos' = repo_pos + 1
    /\ pc' = IF repo_pos + 1 > Len(repos) THEN "vrename" ELSE "vcheck"
    /\ UNCHANGED <<hub, clock, db_stamp, changed, db_before, repository_images, repos,
                   new_repository_tags, tag_pos, n, added_image_layers, is_image_updated,
                   img_pos, result, new_repositories, loaded, outcome>>

\* lines 731-795: one repository of the database is checked
VerifiedCheck ==
    /\ pc = "vcheck"
    /\ IF CurRepo \notin Range(new_repositories)
       THEN \* no slug name: the repository is passed over
            /\ NextRepository
            /\ UNCHANGED <<db_file, faults, parent_db, new_image_layers>>
       ELSE \/ \* get_repository_query_v1 returns None and result.get raises
               /\ MayFail
               /\ faults' = faults + 1
               /\ Abort
               /\ UNCHANGED result
            \/ \E layers \in Extracted(hub[CurRepo], TagNames(hub[CurRepo])[1]) :
                /\ new_image_layers' = layers
                /\ IF layers = ""
                   THEN /\ faults' = faults + 1
                        /\ UNCHANGED <<db_file, parent_db>>
                   ELSE IF is_in_db(CurImages, TagNames(hub[CurRepo])[1], layers)
                   THEN UNCHANGED <<db_file, faults, parent_db>>
                   ELSE \E ok \in VerifiedOutcomesFor(<<CurRepo>>) :
                            /\ parent_db' =
                                    SetItem(parent_db, CurRepo,
                                            get_layers_verified_repository(CurRepo, ok))
                            /\ db_file' = parent_db'
                            /\ faults' = faults + FailedRepos(ok)
                /\ NextRepository
    /\ UNCHANGED <<gvars, fvars, dvars, lvars, mvars, tvars, rvars>>

\* lines 798-804: the file is renamed with the current time
VerifiedRename ==
    /\ pc = "vrename"
    /\ db_stamp' = clock
    /\ changed' = FALSE
    /\ ReturnFromUpdate
    /\ UNCHANGED <<hub, clock, db_file, faults, repository_images, result, gvars, fvars, dvars, lvars, mvars, tvars, rvars>>

\* the passes over a verified database
NextVerified ==
    \/ \E repo \in HubRepos, tag \in SyncTags, layers \in SyncLayers :
            Push(repo, tag, layers, TRUE)
    \/ VerifiedPopulate
    \/ VerifiedStart
    \/ VerifiedCheck
    \/ VerifiedRename

SpecVerified == InitSync /\ [][NextVerified]_vars

------------------------------------------------------------------------------
(* update_official_database over a repository with more tags and records
   than the thresholds *)

\* the most records stored for the repository
MaxStored == 32

\* the repository's records as they are stored
StoredShapes == {"rising", "falling", "latepeak"}

\* two digits
Digits2(k) == (IF k < 10 THEN "0" ELSE "") \o ToString(k)

\* the layers stored for the k-th tag, and the layers of the tag once it
\* has been pushed again
OldLayers(k) == "aaaaaaaaaa" \o Digits2(k)

NewLayers(k) == "bbbbbbbbbb" \o Digits2(k)

StoredTime(shape, len, k) ==
    CASE shape = "rising" -> k
      [] shape = "falling" -> len + 1 - k
      [] OTHER -> IF k = len THEN len + 2 ELSE 1

\* parent_db[repository]: one record per tag
StoredImages(shape, len) ==
    [k \in 1..len |->
        [fs_layers |-> OldLayers(k), image_tag |-> Digits2(k),
         last_updated |-> StoredTime(shape, len, k), created |-> 1]]

\* the tags of the repository on the hub: the first `pushed` of them were
\* pushed again with other layers
HubTags(len, pushed, latest) ==
    [k \in 1..len |->
        [name |-> Digits2(k),
         layers |-> IF k <= pushed THEN NewLayers(k) ELSE OldLayers(k),
         last_updated |-> latest, created |-> 1]]

\* a database file of one long repository, and no request fails
InitWindow ==
    /\ \E shape \in StoredShapes, len \in {MaxStored - 1, MaxStored},
          latest \in {MaxStored - 1, MaxStored + 1} :
       \E pushed \in {0, 1, len} :
            /\ hub = [repo \in HubRepos |->
                        IF repo = CatalogOrder[1] THEN HubTags(len, pushed, latest)
                        ELSE <<>>]
            /\ db_file = <<[name |-> CatalogOrder[1], images |-> StoredImages(shape, len)]>>
    /\ clock = 1
    /\ db_stamp = 1
    /\ faults = MaxFaults
    /\ changed = FALSE
    /\ db_before = <<>>
    /\ repository_images = <<>>
    /\ UpdateQuiet
    /\ ParentQuiet
    /\ FileQuiet
    /\ DuplicatesQuiet
    /\ PullQuiet
    /\ MainQuiet
    /\ ThreadQuiet
    /\ RepositoryQuiet

NextWindow ==
    \/ StartUpdate
    \/ CheckRepository
    \/ NextTag
    \/ CheckImage
    \/ AddImage
    \/ WriteBack
    \/ Rename

SpecWindow == InitWindow /\ [][NextWindow]_vars

------------------------------------------------------------------------------
(* The database file as text: json.dumps, json.loads and
   utils.write_dict_element_to_file *)

\* the databases written to a file: repositories in any order, record lists
\* that may be empty, timestamps of one and of several digits
PersistRepos == {"redis", "mongo"}

PersistRecords ==
    [fs_layers : Tokens, image_tag : {"6"}, last_updated : {0, 1572}, created : {981}]

PersistLists(cap) == UNION {[1..m -> PersistRecords] : m \in 0..cap}

RECURSIVE PersistDatabases(_, _)
PersistDatabases(cap, used) ==
    {<<>>} \cup
    UNION {UNION {{<<[name |-> repo, images |-> imgs]>> \o rest :
                        rest \in PersistDatabases(cap - Len(imgs), used \cup {repo})} :
                  imgs \in PersistLists(cap)} :
           repo \in PersistRepos \ used}

DoubleQuote == "\""

SingleQuote == "'"

\* str.join
RECURSIVE Join(_, _)
Join(parts, sep) ==
    IF parts = <<>> THEN ""
    ELSE IF Len(parts) = 1 THEN parts[1]
    ELSE parts[1] \o sep \o Join(Tail(parts), sep)

\* one record as Python and json.dumps print a dict, keys in insertion
\* order, strings between `quote`
DictText(image, quote) ==
    "{" \o quote \o "fs_layers" \o quote \o ": " \o quote \o image.fs_layers \o quote
        \o ", " \o quote \o "image_tag" \o quote \o ": " \o quote \o image.image_tag \o quote
        \o ", " \o quote \o "last_updated" \o quote \o ": " \o ToString(image.last_updated)
        \o ", " \o quote \o "created" \o quote \o ": " \o ToString(image.created)
        \o "}"

ListText(images, quote) ==
    "[" \o Join([k \in 1..Len(images) |-> DictText(images[k], quote)], ", ") \o "]"

\* str(value) of a list of records
str(value) == ListText(value, SingleQuote)

\* json.dumps(parent_db), lines 652-654
json_dumps(db) ==
    "{" \o Join([k \in 1..Len(db) |->
                    DoubleQuote \o db[k].name \o DoubleQuote \o ": "
                        \o ListText(db[k].images, DoubleQuote)], ", ")
        \o "}"

\* where `old` first occurs in text at or after position `from`, 0 when it
\* does not
Find(text, old, from) ==
    LET found == {pos \in from..(Len(text) - Len(old) + 1) :
                      SubSeq(text, pos, pos + Len(old) - 1) = old}
    IN  IF found = {} THEN 0
        ELSE CHOOSE pos \in found : \A other \in found : pos <= other

\* a mutant of str_replace: only the first occurrence is replaced
str_replace_first(text, old, new) ==
    LET pos == Find(text, old, 1)
    IN  IF pos = 0 THEN text
        ELSE SubSeq(text, 1, pos - 1) \o new \o SubSeq(text, pos + Len(old), Len(text))

\* str.replace(old, new) for a non-empty `old`: every occurrence, from left
\* to right
RECURSIVE str_replace(_, _, _)
str_replace(text, old, new) ==
    LET pos == Find(text, old, 1)
    IN  IF pos = 0 THEN text
        ELSE SubSeq(text, 1, pos - 1) \o new
                 \o str_replace(SubSeq(text, pos + Len(old), Len(text)), old, new)

\* utils.py lines 198-207: the line of the file after the element was added
AddedToLine(line, key, value) ==
    LET element == DoubleQuote \o key \o DoubleQuote \o ": "
                       \o str_replace(str(value), SingleQuote, DoubleQuote) \o "}"
    IN  IF line # "{}"
        THEN str_replace(line, "]}", "], " \o element)
        ELSE str_replace(line, "}", element)

\* json.loads, for the objects a database file holds -----------------------

\* the value of Body for `value`, computed once
Bind(value, Body(_)) == CHOOSE bound \in {Body(v) : v \in {value}} : TRUE

At(text, pos, char) == pos <= Len(text) /\ SubSeq(text, pos, pos) = char

RECURSIVE SkipSpaces(_, _)
SkipSpaces(text, pos) ==
    IF At(text, pos, " ") THEN SkipSpaces(text, pos + 1) ELSE pos

Malformed == [ok |-> FALSE, value |-> <<>>, pos |-> 0]

\* the position of the next double quote from pos on, 0 when there is none
FindQuote(text, pos) == Find(text, DoubleQuote, pos)

ParseString(text, pos) ==
    IF ~At(text, pos, DoubleQuote) THEN Malformed ELSE
    Bind(FindQuote(text, pos + 1), LAMBDA close :
    IF close = 0 THEN Malformed
    ELSE [ok |-> TRUE, value |-> SubSeq(text, pos + 1, close - 1), pos |-> close + 1])

DigitValue ==
    ("0" :> 0) @@ ("1" :> 1) @@ ("2" :> 2) @@ ("3" :> 3) @@ ("4" :> 4) @@
    ("5" :> 5) @@ ("6" :> 6) @@ ("7" :> 7) @@ ("8" :> 8) @@ ("9" :> 9)

IsDigit(text, pos) == pos <= Len(text) /\ SubSeq(text, pos, pos) \in DOMAIN DigitValue

RECURSIVE ParseDigits(_, _, _)
ParseDigits(text, pos, number) ==
    IF IsDigit(text, pos)
    THEN ParseDigits(text, pos + 1, 10 * number + DigitValue[SubSeq(text, pos, pos)])
    ELSE [ok |-> TRUE, value |-> number, pos |-> pos]

ParseNumber(text, pos) ==
    IF IsDigit(text, pos) THEN ParseDigits(text, pos, 0) ELSE Malformed

ParseScalar(text, pos) ==
    IF At(text, pos, DoubleQuote) THEN ParseString(text, pos) ELSE ParseNumber(text, pos)

\* the value a dict holds for `key`: the last one the text gives it
RECURSIVE Lookup(_, _)
Lookup(members, key) ==
    IF members = <<>> THEN Malformed
    ELSE IF members[Len(members)].key = key THEN members[Len(members)].item
    ELSE Lookup(SubSeq(members, 1, Len(members) - 1), key)

ImageKeys == {"fs_layers", "image_tag", "last_updated", "created"}

\* the members `"key": scalar` of one record, up to its closing brace
RECURSIVE ParseMembers(_, _, _)
ParseMembers(text, pos, members) ==
    Bind(ParseString(text, SkipSpaces(text, pos)), LAMBDA key :
    IF ~key.ok THEN Malformed ELSE
    Bind(SkipSpaces(text, key.pos), LAMBDA colon :
    IF ~At(text, colon, ":") THEN Malformed ELSE
    Bind(ParseScalar(text, SkipSpaces(text, colon + 1)), LAMBDA item :
    IF ~item.ok THEN Malformed ELSE
    Bind(SkipSpaces(text, item.pos), LAMBDA next :
    Bind(Append(members, [key |-> key.value, item |-> item]), LAMBDA sofar :
    IF At(text, next, ",") THEN ParseMembers(text, next + 1, sofar)
    ELSE IF At(text, next, "}") THEN [ok |-> TRUE, value |-> sofar, pos |-> next + 1]
    ELSE Malformed)))))

ParseImage(text, pos) ==
    IF ~At(text, pos, "{") THEN Malformed ELSE
    Bind(ParseMembers(text, pos + 1, <<>>), LAMBDA members :
    IF ~members.ok THEN Malformed
    ELSE IF {members.value[k].key : k \in 1..Len(members.value)} # ImageKeys
    THEN Malformed
    ELSE [ok |-> TRUE,
          value |-> [fs_layers |-> Lookup(members.value, "fs_layers").value,
                     image_tag |-> Lookup(members.value, "image_tag").value,
                     last_updated |-> Lookup(members.value, "last_updated").value,
                     created |-> Lookup(members.value, "created").value],
          pos |-> members.pos])

\* the records of one list, up to its closing bracket
RECURSIVE ParseImages(_, _, _)
ParseImages(text, pos, images) ==
    Bind(ParseImage(text, SkipSpaces(text, pos)), LAMBDA image :
    IF ~image.ok THEN Malformed ELSE
    Bind(SkipSpaces(text, image.pos), LAMBDA next :
    Bind(Append(images, image.value), LAMBDA sofar :
    IF At(text, next, ",") THEN ParseImages(text, next + 1, sofar)
    ELSE IF At(text, next, "]") THEN [ok |-> TRUE, value |-> sofar, pos |-> next + 1]
    ELSE Malformed)))

ParseList(text, pos) ==
    IF ~At(text, pos, "[") THEN Malformed ELSE
    Bind(SkipSpaces(text, pos + 1), LAMBDA next :
    IF At(text, next, "]") THEN [ok |-> TRUE, value |-> <<>>, pos |-> next + 1]
    ELSE ParseImages(text, next, <<>>))

\* the repositories `"key": [...]` of the object, up to its closing brace
RECURSIVE ParseRepositories(_, _, _)
ParseRepositories(text, pos, db) ==
    Bind(ParseString(text, SkipSpaces(text, pos)), LAMBDA key :
    IF ~key.ok THEN Malformed ELSE
    Bind(SkipSpaces(text, key.pos), LAMBDA colon :
    IF ~At(text, colon, ":") THEN Malformed ELSE
    Bind(ParseList(text, SkipSpaces(text, colon + 1)), LAMBDA images :
    IF ~images.ok THEN Malformed ELSE
    Bind(SkipSpaces(text, images.pos), LAMBDA next :
    Bind(SetItem(db, key.value, images.value), LAMBDA sofar :
    IF At(text, next, ",") THEN ParseRepositories(text, next + 1, sofar)
    ELSE IF At(text, next, "}") THEN [ok |-> TRUE, value |-> sofar, pos |-> next + 1]
    ELSE Malformed)))))

ParseDatabase(text, pos) ==
    IF ~At(text, pos, "{") THEN Malformed ELSE
    Bind(SkipSpaces(text, pos + 1), LAMBDA next :
    IF At(text, next, "}") THEN [ok |-> TRUE, value |-> <<>>, pos |-> next + 1]
    ELSE ParseRepositories(text, next, <<>>))

\* json.loads(json_file.readline()), lines 505-506: the database, or the
\* ValueError of a line that is no JSON object
json_loads(text) ==
    Bind(ParseDatabase(text, SkipSpaces(text, 1)), LAMBDA object :
    IF object.ok /\ SkipSpaces(text, object.pos) = Len(text) + 1
    THEN [ok |-> TRUE, db |-> object.value]
    ELSE [ok |-> FALSE, db |-> <<>>])

\* the file of a database about to be written repository by repository:
\* main writes "{}" to the new file (lines 947-948)
InitPersist ==
    /\ HubQuiet
    /\ UpdateQuiet
    /\ repository = ""
    /\ image_layers = ""
    /\ parent = <<>>
    /\ base_db \in PersistDatabases(MaxRecs, {})
    /\ gpc = "appending"
    /\ data = "{}"
    /\ written = 0
    /\ reloaded = [ok |-> FALSE, db |-> <<>>]
    /\ DuplicatesQuiet
    /\ PullQuiet
    /\ MainQuiet
    /\ ThreadQuiet
    /\ RepositoryQuiet

\* utils.write_dict_element_to_file, lines 192-214: the next repository is
\* added to the line and the line is written to the file
WriteElement ==
    /\ gpc = "appending"
    /\ written < Len(base_db)
    /\ data' = AddedToLine(data, base_db[written + 1].name, base_db[written + 1].images)
    /\ written' = written + 1
    /\ UNCHANGED <<gvars, hvars, uvars, reloaded, dvars, lvars, mvars, tvars, rvars>>

\* lines 505-506: the file is loaded
LoadFile ==
    /\ \/ gpc = "appending" /\ written = Len(base_db) /\ gpc' = "loaded"
       \/ gpc = "dumped" /\ gpc' = "reloaded"
    /\ reloaded' = json_loads(data)
    /\ UNCHANGED <<base_db, repository, image_layers, parent, hvars, uvars, data, written,
                   dvars, lvars, mvars, tvars, rvars>>

\* lines 652-654: what was loaded is written back to the file
DumpFile ==
    /\ gpc = "loaded"
    /\ reloaded.ok
    /\ data' = json_dumps(reloaded.db)
    /\ gpc' = "dumped"
    /\ UNCHANGED <<base_db, repository, image_layers, parent, hvars, uvars, written,
                   reloaded, dvars, lvars, mvars, tvars, rvars>>

NextPersist ==
    \/ WriteElement
    \/ LoadFile
    \/ DumpFile

SpecPersist == InitPersist /\ [][NextPersist]_vars

------------------------------------------------------------------------------
(* verify_duplicates *)

\* the databases whose duplicates are looked for: three repositories, the
\* same layers under several of them with equal or different creation times
DuplicateRepos == <<"foo", "bar", "baz">>

DuplicateRecords ==
    [fs_layers : Tokens, image_tag : {"6"}, last_updated : {0}, created : {100, 200}]

DuplicateLists(cap) == UNION {[1..m -> DuplicateRecords] : m \in 0..cap}

DuplicateDatabases ==
    {<<[name |-> DuplicateRepos[1], images |-> foo],
       [name |-> DuplicateRepos[2], images |-> bar],
       [name |-> DuplicateRepos[3], images |-> baz]>> :
        foo \in DuplicateLists(MaxRecs), bar \in DuplicateLists(MaxRecs),
        baz \in DuplicateLists(1)}

\* line 835: the keys of the database without `repo`
OtherRepositories(db, repo) ==
    SubSeq(Keys(db), 1, IndexOf(Keys(db), repo) - 1)
        \o SubSeq(Keys(db), IndexOf(Keys(db), repo) + 1, Len(db))

\* a mutant of IsMoreRecent: a record created at the same time counts too
IsNotOlder(image, img) == image.created - img.created >= 0

\* line 851
IsMoreRecent(image, img) == image.created - img.created > 0

\* lines 840-858: is_image_parent after the images of one repository
RECURSIVE AfterImages(_, _, _)
AfterImages(image, imgs, is_image_parent) ==
    IF imgs = <<>> THEN is_image_parent
    ELSE AfterImages(image, Tail(imgs),
                     IF image.fs_layers = Head(imgs).fs_layers /\ IsMoreRecent(image, Head(imgs))
                     THEN FALSE
                     ELSE is_image_parent)

\* lines 837-862: is_image_parent when the loop over the other repositories
\* is left, by its break or at its end
RECURSIVE AfterRepositories(_, _, _)
AfterRepositories(image, db, others) ==
    IF others = <<>> THEN TRUE
    ELSE IF ~AfterImages(image, Images(db, Head(others)), TRUE) THEN FALSE
    ELSE AfterRepositories(image, db, Tail(others))

\* lines 831-862
NonParents(db) ==
    UNION {{<<db[k].name, pos>> :
                pos \in {j \in 1..Len(db[k].images) :
                            ~AfterRepositories(db[k].images[j], db,
                                               OtherRepositories(db, db[k].name))}} :
           k \in 1..Len(db)}

\* a mutant of AfterDuplicates: the first record of each repository found
\* not to be a parent is removed from the mapping
AfterDuplicatesRemoved(db) ==
    [k \in 1..Len(db) |->
        LET found == {pos \in 1..Len(db[k].images) : <<db[k].name, pos>> \in NonParents(db)}
        IN  [name |-> db[k].name,
             images |-> IF found = {} THEN db[k].images
                        ELSE RemoveAt(db[k].images,
                                      CHOOSE pos \in found : \A q \in found : pos <= q)]]

\* lines 829-863: the mapping when the loops are over. The removals of
\* lines 851 and 855 and the write of lines 862-863 are comments: the
\* mapping is the one that was read, and the file is not written
AfterDuplicates(db) == db

InitDuplicates ==
    /\ hub = [repo \in HubRepos |-> <<>>]
    /\ clock = 0
    /\ db_stamp = 0
    /\ faults = 0
    /\ changed = FALSE
    /\ db_before = <<>>
    /\ repository_images = <<>>
    /\ UpdateQuiet
    /\ FileQuiet
    /\ PullQuiet
    /\ MainQuiet
    /\ ThreadQuiet
    /\ RepositoryQuiet
    /\ repository = ""
    /\ image_layers = ""
    /\ parent = <<>>
    /\ gpc = "off"
    /\ base_db \in DuplicateDatabases
    /\ db_file = base_db
    /\ non_parents = {}

\* verify_duplicates, lines 825-869: the file is read and its records are
\* compared; nothing is written and nothing is returned
verify_duplicates ==
    /\ pc = "idle"
    /\ pc' = "verified"
    /\ \/ /\ loaded' = TRUE
          /\ non_parents' = NonParents(base_db)
          /\ base_db' = AfterDuplicates(base_db)
          /\ UNCHANGED faults
       \/ /\ MayFail
          /\ loaded' = FALSE
          /\ faults' = faults + 1
          /\ UNCHANGED <<non_parents, base_db>>
    /\ UNCHANGED <<repository, image_layers, parent, gpc, hub, clock, db_file, db_stamp, changed, db_before,
                   repository_images, parent_db, repos, repo_pos, new_repository_tags,
                   tag_pos, n, added_image_layers, new_image_layers, is_image_updated,
                   img_pos, result, new_repositories, outcome, fvars, lvars, mvars, tvars, rvars>>

NextDuplicates == verify_duplicates

SpecDuplicates == InitDuplicates /\ [][NextDuplicates]_vars

------------------------------------------------------------------------------
(* get_layers_image and the pull loop of get_layers_official_repository *)

\* line 174
retrials == 3 + 2

\* line 175
retrials_wait_time == 30

\* the ids the Docker Engine announces
PullIds == {"a1", "b2"}

PlatformErrors == {"cannot be used on this platform", "no matching manifest"}

\* the decoded lines of client.pull(stream = True, decode = True)
Lines ==
    [status : {"Pulling fs layer", "Already exists"}, id : PullIds, error : {""}]
    \cup [status : {"Downloading", "Waiting"}, id : PullIds, error : {""}]
    \cup [status : {""}, id : {""}, error : PlatformErrors \cup {"gateway timeout"}]

\* what client.login and client.pull raise: a docker.errors.APIError with
\* its explanation, or an exception of another class
Raised ==
    [class : {"APIError"},
     text : {"cannot be used on this platform", "docker login required",
             "500 Server Error"}]
    \cup [class : {"ConnectionError"}, text : {"timed out"}]

\* re.search(pattern, text): text holds pattern
re_search(pattern, text) ==
    \E from \in 1..(Len(text) - Len(pattern) + 1) :
        SubSeq(text, from, from + Len(pattern) - 1) = pattern

\* line 193: the error of the line tells an incompatible platform
IsIncompatible(error) ==
    \/ re_search("cannot be used on this platform", error)
    \/ re_search("no matching manifest", error)

\* a mutant of RangeExhausted: range(1, retrials + 1)
RangeExhaustedLate(value) == value > retrials

\* lines 177 and 263: range(1, retrials) has no value left
RangeExhausted(value) == value > retrials - 1

\* a mutant of LeavesLoop: is_retrieved is not looked at
LeavesLoopAtEnd(retrieved, value) == RangeExhausted(value)

\* lines 177-179 and 263-265: the loop is left, at its end or by the break
LeavesLoop(retrieved, value) == retrieved \/ RangeExhausted(value)

\* how the except clause of the caller ends the attempt: lines 205-223 of
\* get_layers_image, lines 283-291 of get_layers_official_repository
Handled(who, text) ==
    IF who = "image" /\ re_search("cannot be used on this platform", text)
    THEN "platform"
    ELSE IF who = "image" /\ re_search("docker login", text) THEN "login"
    ELSE "failed"

\* the attempt ended in the except clause with an APIError of this text
ExceptAPIError(text) ==
    LET end == Handled(caller, text)
    IN  /\ ends' = Append(ends, end)
        /\ layer_ids' = IF end = "failed" THEN "" ELSE layer_ids
        /\ IF end = "platform"
           THEN /\ ppc' = "returned"
                /\ UNCHANGED <<retrial, slept>>
           ELSE /\ ppc' = "loop"
                /\ retrial' = retrial + 1
                /\ slept' = IF retrial < retrials - 1 THEN slept + retrials_wait_time
                            ELSE slept

InitPull ==
    /\ HubQuiet
    /\ UpdateQuiet
    /\ ParentQuiet
    /\ FileQuiet
    /\ DuplicatesQuiet
    /\ PullQuiet
    /\ MainQuiet
    /\ ThreadQuiet
    /\ RepositoryQuiet

\* lines 172-175 and 256-259: the call starts
CallPull ==
    /\ ppc = "idle"
    /\ caller' \in {"image", "official"}
    /\ layer_ids' = ""
    /\ is_retrieved' = FALSE
    /\ retrial' = 1
    /\ ppc' = "loop"
    /\ UNCHANGED <<announced, ends, consumed, slept>>
    /\ UNCHANGED <<gvars, hvars, uvars, fvars, dvars, mvars, tvars, rvars>>

\* lines 177-185 and 263-271: the next round of the loop logs in and pulls,
\* or the loop is left and the layers are returned
NextRetrial ==
    /\ ppc = "loop"
    /\ IF LeavesLoop(is_retrieved, retrial)
       THEN /\ ppc' = "returned"
            /\ UNCHANGED announced
       ELSE /\ ppc' = "stream"
            /\ announced' = <<>>
    /\ UNCHANGED <<caller, retrial, layer_ids, is_retrieved, ends, consumed, slept>>
    /\ UNCHANGED <<gvars, hvars, uvars, fvars, dvars, mvars, tvars, rvars>>

\* lines 185-203 and 271-281: one line of the stream
NextLine ==
    /\ ppc = "stream"
    /\ consumed < MaxLines
    /\ consumed' = consumed + 1
    /\ \E line \in Lines :
          IF line.status \in {"Pulling fs layer", "Already exists"}
          THEN /\ layer_ids' = layer_ids \o line.id
               /\ announced' = Append(announced, line.id)
               /\ UNCHANGED <<ppc, retrial, is_retrieved, ends, slept>>
          ELSE IF caller = "image" /\ line.error # ""
          THEN /\ ExceptAPIError(IF IsIncompatible(line.error)
                                 THEN "cannot be used on this platform" ELSE "")
               /\ UNCHANGED <<is_retrieved, announced>>
          ELSE IF line.status = "Downloading"
          THEN /\ is_retrieved' = TRUE
               /\ ends' = Append(ends, "retrieved")
               /\ retrial' = retrial + 1
               /\ ppc' = "loop"
               /\ UNCHANGED <<layer_ids, announced, slept>>
          ELSE UNCHANGED <<ppc, retrial, layer_ids, is_retrieved, announced, ends, slept>>
    /\ UNCHANGED caller
    /\ UNCHANGED <<gvars, hvars, uvars, fvars, dvars, mvars, tvars, rvars>>

\* the stream has no line left: the for statement of line 185 ends and the
\* next round of the loop follows at once
StreamEnds ==
    /\ ppc = "stream"
    /\ ends' = Append(ends, "exhausted")
    /\ retrial' = retrial + 1
    /\ ppc' = "loop"
    /\ UNCHANGED <<caller, layer_ids, is_retrieved, announced, consumed, slept>>
    /\ UNCHANGED <<gvars, hvars, uvars, fvars, dvars, mvars, tvars, rvars>>

\* client.login or client.pull raises: an APIError reaches the except clause,
\* any other exception leaves the function
PullRaises ==
    /\ ppc = "stream"
    /\ \E exception \in Raised :
          IF exception.class = "APIError"
          THEN ExceptAPIError(exception.text)
          ELSE /\ ends' = Append(ends, "uncaught")
               /\ ppc' = "raised"
               /\ UNCHANGED <<retrial, layer_ids, slept>>
    /\ UNCHANGED <<caller, is_retrieved, announced, consumed>>
    /\ UNCHANGED <<gvars, hvars, uvars, fvars, dvars, mvars, tvars, rvars>>

NextPull ==
    \/ CallPull
    \/ NextRetrial
    \/ NextLine
    \/ StreamEnds
    \/ PullRaises

SpecPull == InitPull /\ [][NextPull]_vars

\* the interpreter keeps running the call: a step that can be taken is taken
SpecPullFair == SpecPull /\ WF_vars(NextPull)

------------------------------------------------------------------------------
(* The choice of the database file: utils.get_most_recent_file *)

\* a file of the directory: the timestamp its name encodes and the
\* modification time os.path.getmtime gives
DatabaseFiles == [stamp : 1..MaxFiles, mtime : 1..MaxFiles]

\* os.listdir filtered by class: files of different names in any order
Directories ==
    {listing \in UNION {[1..m -> DatabaseFiles] : m \in 0..MaxFiles} :
        \A a, b \in 1..Len(listing) : a # b => listing[a].stamp # listing[b].stamp}

\* utils.py line 134, once most_recent_mtime is not None
IsMoreRecentFile(file, most_recent_file) == file.mtime > most_recent_file.mtime

\* utils.py lines 128-138; most_recent_mtime is the mtime of most_recent_file
\* and None while most_recent_file is ""
RECURSIVE MostRecentFrom(_, _, _)
MostRecentFrom(listing, k, most_recent_file) ==
    IF k > Len(listing) THEN most_recent_file
    ELSE MostRecentFrom(listing, k + 1,
                        IF most_recent_file = NoFile \/ IsMoreRecentFile(listing[k], most_recent_file)
                        THEN listing[k]
                        ELSE most_recent_file)

get_most_recent_file(listing) == MostRecentFrom(listing, 1, NoFile)

InitSelect ==
    /\ HubQuiet
    /\ UpdateQuiet
    /\ ParentQuiet
    /\ FileQuiet
    /\ DuplicatesQuiet
    /\ PullQuiet
    /\ ThreadQuiet
    /\ RepositoryQuiet
    /\ files \in Directories
    /\ parent_file = NoFile
    /\ mpc = "select"

\* dockerhub_api.py lines 719-728, main.py lines 428-429,
\* populate_parent_db.py lines 910-915: the file of the class is chosen
SelectFile ==
    /\ mpc = "select"
    /\ parent_file' = get_most_recent_file(files)
    /\ mpc' = "selected"
    /\ UNCHANGED files
    /\ UNCHANGED <<gvars, hvars, uvars, fvars, dvars, lvars, tvars, rvars>>

NextSelect == SelectFile

SpecSelect == InitSelect /\ [][NextSelect]_vars

------------------------------------------------------------------------------
(* main.py: the downloading thread and the analysis of what it downloaded *)

ExperimentTypes == {"official", "community", "verified", "certified"}

\* the images Docker Hub lists for the experiment, and the images the
\* databases name as parents
ListedImages == {"redis", "mongo"}

ParentImages == {"debian", "ubi"}

\* what is true of each image: when it was last updated, whether the
\* verified database stores its layers under its name, and what
\* get_image_parent answers for its layers from either database. A parent
\* whose stored layers are the layers of the image it is the parent of has
\* that image as its own parent.
Upstreams ==
    {facts \in [ListedImages \cup ParentImages ->
                    [updated : {1, 2, 3}, stored : BOOLEAN,
                     official_parent : {"", "debian", "redis"},
                     verified_parent : {"", "ubi"}]] :
        /\ facts["redis"].official_parent # "redis"
        /\ \A image \in ParentImages \cup {"mongo"} :
              /\ facts[image].verified_parent = ""
              /\ ~facts[image].stored
        /\ \A image \in {"ubi", "mongo"} : facts[image].official_parent = ""
        /\ facts["debian"].official_parent \in {"", "redis"}
        /\ facts["debian"].official_parent = "redis"
              => facts["redis"].official_parent = "debian"}

\* images_to_analyze of lines 455-469
ThreadLists == {<<"redis">>, <<"redis", "mongo">>, <<"mongo", "redis">>}

\* the timestamps the names of the two database files encode
FileStamps == {1, 2}

\* main.py lines 429-448: the time of the official database, and the older
\* of the two when the verified database is used too
DatabaseTime(type, official_stamp, verified_stamp) ==
    IF type \in {"certified", "verified"} /\ verified_stamp < official_stamp
    THEN verified_stamp
    ELSE official_stamp

InitExperiment ==
    /\ HubQuiet
    /\ UpdateQuiet
    /\ ParentQuiet
    /\ FileQuiet
    /\ DuplicatesQuiet
    /\ PullQuiet
    /\ MainQuiet
    /\ RepositoryQuiet
    /\ upstream \in Upstreams
    /\ experiment_type = ""
    /\ db_last_updated_time = 0
    /\ images_type = ""
    /\ thread_images = <<>>
    /\ image_pos = 0
    /\ downloaded = {}
    /\ downloaded_image_layers = {}
    /\ resolved = {}
    /\ analyzed_images = {}
    /\ parents = <<>>
    /\ tpc = "main"
    /\ thread_exit = FALSE

\* main.py lines 425-503: the time of the databases is read from their names
\* and the thread is started with the images of the experiment
StartExperiment ==
    /\ tpc = "main"
    /\ \E type \in ExperimentTypes, official_stamp \in FileStamps,
          verified_stamp \in FileStamps, listing \in ThreadLists :
            /\ experiment_type' = type
            /\ db_last_updated_time' = DatabaseTime(type, official_stamp, verified_stamp)
            /\ images_type' = type
            /\ thread_images' = listing
    /\ image_pos' = 1
    /\ tpc' = "started"
    /\ UNCHANGED <<upstream, downloaded, downloaded_image_layers, resolved,
                   analyzed_images, parents, thread_exit>>
    /\ UNCHANGED <<gvars, hvars, uvars, fvars, dvars, lvars, mvars, rvars>>

\* main.py lines 134-136: the one test of the request to stop, made before
\* the thread enters the loop over its images
ThreadBegins ==
    /\ tpc = "started"
    /\ tpc' = IF thread_exit \/ thread_images = <<>> THEN "ended" ELSE "running"
    /\ UNCHANGED <<upstream, experiment_type, db_last_updated_time, images_type,
                   thread_images, image_pos, downloaded, downloaded_image_layers,
                   resolved, analyzed_images, parents, thread_exit>>
    /\ UNCHANGED <<gvars, hvars, uvars, fvars, dvars, lvars, mvars, rvars>>

\* main.py lines 152-205: what the thread does with an image of its list.
\* "download": the image passes the test of its type; "skip": the thread
\* goes on to the next image; "crash": the answer of the API has no get.
\* `failed` tells the verdicts that follow from a request that failed.
Verdicts(type, facts, time) ==
    IF type \in {"official", "community"}
    THEN {[act |-> IF facts.updated > time THEN "skip" ELSE "download", failed |-> FALSE],
          [act |-> "skip", failed |-> TRUE],
          [act |-> "crash", failed |-> TRUE]}
    ELSE IF type \in {"certified", "verified"}
    THEN {[act |-> IF facts.stored THEN "download" ELSE "skip", failed |-> FALSE],
          [act |-> "skip", failed |-> TRUE]}
    ELSE {[act |-> "download", failed |-> FALSE]}

\* main.py lines 210-230: the image is downloaded at once, in one of the
\* retrials, or never
Downloads ==
    {[how |-> "first", failed |-> FALSE], [how |-> "retried", failed |-> TRUE],
     [how |-> "never", failed |-> TRUE]}

Failures(flags) == Cardinality({k \in 1..Len(flags) : flags[k]})

\* main.py lines 229-233 and the loop of line 136: the thread goes on to the
\* next image, or is over after the last one
AfterImage(list, pos) == IF pos = Len(list) THEN "ended" ELSE "running"

\* main.py lines 136-230: the thread handles the next image of its list, up
\* to the return of the download_image that pulled it. The call of line 212
\* returns the layers, which line 213 has still to store; the calls of
\* lines 219-221 drop what they return.
ThreadImage ==
    /\ tpc = "running"
    /\ image_pos <= Len(thread_images)
    /\ LET image == thread_images[image_pos]
       IN  \E verdict \in Verdicts(images_type, upstream[image], db_last_updated_time) :
           \E download \in Downloads :
              LET pulled == verdict.act = "download"
                  failures == Failures(<<verdict.failed, pulled /\ download.failed>>)
                  returned == pulled /\ download.how = "first"
              IN  /\ pulled \/ download.how = "first"
                  /\ faults + failures <= MaxFaults
                  /\ faults' = faults + failures
                  /\ downloaded' = IF pulled /\ download.how # "never"
                                   THEN downloaded \cup {image} ELSE downloaded
                  /\ image_pos' = IF returned THEN image_pos ELSE image_pos + 1
                  /\ tpc' = IF verdict.act = "crash" THEN "crashed"
                            ELSE IF returned THEN "storing"
                            ELSE AfterImage(thread_images, image_pos)
    /\ UNCHANGED <<upstream, experiment_type, db_last_updated_time, images_type,
                   thread_images, downloaded_image_layers, resolved, analyzed_images,
                   parents, thread_exit>>
    /\ UNCHANGED <<hub, clock, db_file, db_stamp, changed, db_before, repository_images>>
    /\ UNCHANGED <<gvars, uvars, fvars, dvars, lvars, mvars, rvars>>

\* main.py line 213: the layers download_image returned are stored under the
\* name of the image
StoreLayers ==
    /\ tpc = "storing"
    /\ downloaded_image_layers' = downloaded_image_layers \cup {thread_images[image_pos]}
    /\ image_pos' = image_pos + 1
    /\ tpc' = AfterImage(thread_images, image_pos)
    /\ UNCHANGED <<upstream, experiment_type, db_last_updated_time, images_type,
                   thread_images, downloaded, resolved, analyzed_images, parents,
                   thread_exit>>
    /\ UNCHANGED <<gvars, hvars, uvars, fvars, dvars, lvars, mvars, rvars>>

\* get_image_parent called with retrials (main.py lines 574-603 and
\* 607-636): it completes, at once or in a retrial, or fails every time
Lookups == {[completed |-> TRUE, failed |-> FALSE], [completed |-> FALSE, failed |-> TRUE]}

\* main.py line 605, as Python groups it:
\* (not is_retrieved and type == "verified") or type == "certified"
AsksVerified(is_done, type) ==
    (~is_done /\ type = "verified") \/ type = "certified"

\* main.py line 578: name + ":" + tag
Tagged(name) == IF name = "" THEN "" ELSE name \o ":latest"

\* main.py lines 526-527, 540-641 and 676-707: one image the engine holds is
\* analysed, its parent is looked for, its record is written to the analysis
\* file and the image is removed
Analyze ==
    /\ tpc \in {"started", "running", "storing", "ended", "crashed"}
    /\ ~thread_exit
    /\ \E image \in downloaded :
          /\ downloaded' = downloaded \ {image}
          /\ IF image \notin downloaded_image_layers
             THEN /\ analyzed_images' = analyzed_images \cup {[name |-> image, parent |-> ""]}
                  /\ UNCHANGED <<resolved, parents, faults>>
             ELSE \E official \in Lookups, verified \in Lookups :
                  LET asked == AsksVerified(official.completed, experiment_type)
                      from_official == IF official.completed
                                       THEN upstream[image].official_parent ELSE ""
                      from_verified == IF verified.completed
                                       THEN upstream[image].verified_parent ELSE ""
                      image_parent_dict == IF asked /\ verified.completed THEN from_verified
                                           ELSE from_official
                      image_parent == IF asked /\ from_verified # "" THEN Tagged(from_verified)
                                      ELSE Tagged(from_official)
                      failures == Failures(<<official.failed, asked /\ verified.failed>>)
                  IN  /\ asked \/ verified.completed
                      /\ faults + failures <= MaxFaults
                      /\ faults' = faults + failures
                      /\ resolved' = resolved \cup {<<image, "official">>}
                                        \cup (IF asked THEN {<<image, "verified">>} ELSE {})
                      /\ analyzed_images' =
                             analyzed_images \cup {[name |-> image, parent |-> image_parent]}
                      /\ parents' = IF image_parent_dict # ""
                                       /\ image_parent_dict \notin Range(parents)
                                    THEN Append(parents, image_parent_dict)
                                    ELSE parents
    /\ UNCHANGED <<upstream, experiment_type, db_last_updated_time, images_type,
                   thread_images, image_pos, downloaded_image_layers, tpc, thread_exit>>
    /\ UNCHANGED <<hub, clock, db_file, db_stamp, changed, db_before, repository_images>>
    /\ UNCHANGED <<gvars, uvars, fvars, dvars, lvars, mvars, rvars>>

\* main.py lines 721 and 751-760: the thread is over and parents were
\* identified: the thread is started again with them and the list of the
\* parents is emptied
DownloadParents ==
    /\ tpc \in {"ended", "crashed"}
    /\ ~thread_exit
    /\ parents # <<>>
    /\ thread_images' = parents
    /\ images_type' = "None"
    /\ image_pos' = 1
    /\ parents' = <<>>
    /\ tpc' = "started"
    /\ UNCHANGED <<upstream, experiment_type, db_last_updated_time, downloaded,
                   downloaded_image_layers, resolved, analyzed_images, thread_exit>>
    /\ UNCHANGED <<gvars, hvars, uvars, fvars, dvars, lvars, mvars, rvars>>

\* main.py lines 512 and 762-763: the thread is over, no parent is left to
\* download and no image is left to analyse: the scanning ends
FinishExperiment ==
    /\ tpc \in {"ended", "crashed"}
    /\ ~thread_exit
    /\ parents = <<>>
    /\ downloaded = {}
    /\ tpc' = "finished"
    /\ UNCHANGED <<upstream, experiment_type, db_last_updated_time, images_type,
                   thread_images, image_pos, downloaded, downloaded_image_layers,
                   resolved, analyzed_images, parents, thread_exit>>
    /\ UNCHANGED <<gvars, hvars, uvars, fvars, dvars, lvars, mvars, rvars>>

\* main.py lines 765-772: the operator interrupts main, which sets the exit
\* attribute of the thread, reads its event and waits a second for it
Interrupt ==
    /\ tpc \in {"started", "running", "storing", "ended", "crashed"}
    /\ ~thread_exit
    /\ thread_exit' = TRUE
    /\ UNCHANGED <<upstream, experiment_type, db_last_updated_time, images_type,
                   thread_images, image_pos, downloaded, downloaded_image_layers,
                   resolved, analyzed_images, parents, tpc>>
    /\ UNCHANGED <<gvars, hvars, uvars, fvars, dvars, lvars, mvars, rvars>>

\* main.py lines 317-328 and 778-787: the images of the engine are removed
\* and main returns, which ends the daemon thread with the process
CleanExit ==
    /\ thread_exit
    /\ tpc # "exited"
    /\ downloaded' = {}
    /\ tpc' = "exited"
    /\ UNCHANGED <<upstream, experiment_type, db_last_updated_time, images_type,
                   thread_images, image_pos, downloaded_image_layers, resolved,
                   analyzed_images, parents, thread_exit>>
    /\ UNCHANGED <<gvars, hvars, uvars, fvars, dvars, lvars, mvars, rvars>>

\* the steps of the downloading thread and the steps of main
ThreadStep == ThreadBegins \/ ThreadImage \/ StoreLayers

MainStep == StartExperiment \/ Analyze \/ DownloadParents \/ FinishExperiment \/ CleanExit

NextExperiment ==
    \/ StartExperiment
    \/ ThreadBegins
    \/ ThreadImage
    \/ StoreLayers
    \/ Analyze
    \/ DownloadParents
    \/ FinishExperiment
    \/ Interrupt
    \/ CleanExit

SpecExperiment == InitExperiment /\ [][NextExperiment]_vars

\* both the thread and main are scheduled whenever they can take a step; the
\* operator may never interrupt
SpecExperimentFair ==
    SpecExperiment /\ WF_vars(ThreadStep) /\ WF_vars(MainStep)

------------------------------------------------------------------------------
(* get_layers_verified_repository, populate_parent_db.py: the pull of all
   the tags of a repository *)

\* the tags of a repository of the registry
RegistryTagObjects == [name : SyncTags, layers : SyncLayers, created : {1, 2}]

RegistryTagLists ==
    {<<>>} \cup {<<one>> : one \in RegistryTagObjects}
           \cup {pair \in RegistryTagObjects \X RegistryTagObjects :
                      pair[1].name # pair[2].name}

\* lines 404-412: the record appended at a Digest line, made of the layer
\* ids gathered, the tag of the last 'Pulling from' line and the times of
\* the image the engine holds under that tag
RepositoryRecord(ids, tagname, tagobj) ==
    [fs_layers |-> ids, image_tag |-> tagname,
     last_updated |-> tagobj.created, created |-> tagobj.created]

\* line 404: images.append(...)
AppendRecord(list, record) == Append(list, record)

\* the 'Pulling fs layer' and 'Already exists' lines of the stream for one
\* tag: one for each layer id of its image
AnnouncedIds(tagobj) == image_ids(tagobj.layers)

\* stream_tok when no segment is open, and when the segment of an image the
\* engine holds already has no layer line (lines 438-440)
NoSegment == 0 - 1

NoLayerLine == 0 - 2

InitRepository ==
    /\ HubQuiet
    /\ UpdateQuiet
    /\ ParentQuiet
    /\ FileQuiet
    /\ DuplicatesQuiet
    /\ PullQuiet
    /\ MainQuiet
    /\ ThreadQuiet
    /\ registry_tags \in RegistryTagLists
    /\ repo_images = <<>>
    /\ pull_trial = 0
    /\ rpc = "off"
    /\ pull_tag = ""
    /\ pull_layer_ids = ""
    /\ stream_tag = 0
    /\ stream_tok = NoSegment

\* lines 352-358: the call
CallRepository ==
    /\ rpc = "off"
    /\ repo_images' = <<>>
    /\ pull_layer_ids' = ""
    /\ pull_trial' = 1
    /\ rpc' = "pulling"
    /\ UNCHANGED <<registry_tags, pull_tag, stream_tag, stream_tok>>
    /\ UNCHANGED <<gvars, hvars, uvars, fvars, dvars, lvars, mvars, tvars>>

\* a mutant of ResetLayers: the layer ids gathered are kept
KeepLayers(ids) == ids

\* line 460: fs_layer_ids = ""
ResetLayers(ids) == ""

\* lines 445-464: the handling of an APIError: of the platform, a demand for
\* a login, or any other; then the next pass of the loop over
\* range(1, retrials), or its end
HandleAPIError(kind, ids) ==
    LET over == kind = "platform" \/ pull_trial = retrials - 1
    IN  /\ repo_images' = IF kind = "misc" THEN <<>> ELSE repo_images
        /\ pull_layer_ids' = IF kind = "misc" THEN ResetLayers(ids) ELSE ids
        /\ rpc' = IF over THEN "returned" ELSE "pulling"
        /\ pull_trial' = IF over THEN pull_trial ELSE pull_trial + 1
        /\ stream_tag' = 0
        /\ stream_tok' = NoSegment

\* lines 363-370: the login and the request of the pull. The request is
\* answered with the stream, or with an APIError: the demand for a login
\* ("pull access denied ... may require 'docker login'") or any other
PullRequest ==
    /\ rpc = "pulling"
    /\ \E answer \in {"stream", "login", "misc"} :
          IF answer = "stream"
          THEN /\ rpc' = "streaming"
               /\ pull_tag' = ""
               /\ stream_tag' = 0
               /\ stream_tok' = NoSegment
               /\ UNCHANGED <<repo_images, pull_layer_ids, pull_trial>>
          ELSE /\ HandleAPIError(answer, pull_layer_ids)
               /\ UNCHANGED pull_tag
    /\ UNCHANGED <<registry_tags, gvars, hvars, uvars, fvars, dvars, lvars, mvars, tvars>>

\* lines 372-375: a 'Pulling from' line opens the segment of the next tag;
\* layer lines follow unless the engine holds the image of the tag
PullingFrom ==
    /\ rpc = "streaming"
    /\ stream_tok = NoSegment
    /\ stream_tag < Len(registry_tags)
    /\ stream_tag' = stream_tag + 1
    /\ pull_tag' = registry_tags[stream_tag + 1].name
    /\ \E held \in BOOLEAN : stream_tok' = IF held THEN NoLayerLine ELSE 0
    /\ UNCHANGED <<registry_tags, repo_images, pull_layer_ids, pull_trial, rpc>>
    /\ UNCHANGED <<gvars, hvars, uvars, fvars, dvars, lvars, mvars, tvars>>

\* lines 378-380: a 'Pulling fs layer' or 'Already exists' line
LayerLine ==
    /\ rpc = "streaming"
    /\ stream_tok >= 0
    /\ stream_tok < Len(AnnouncedIds(registry_tags[stream_tag]))
    /\ pull_layer_ids' =
           pull_layer_ids \o AnnouncedIds(registry_tags[stream_tag])[stream_tok + 1]
    /\ stream_tok' = stream_tok + 1
    /\ UNCHANGED <<registry_tags, repo_images, pull_tag, stream_tag, pull_trial, rpc>>
    /\ UNCHANGED <<gvars, hvars, uvars, fvars, dvars, lvars, mvars, tvars>>

\* lines 382-391: a line with an error: the layer ids are dropped and an
\* APIError is raised, of the platform or not
ErrorLine ==
    /\ rpc = "streaming"
    /\ \E kind \in {"platform", "misc"} : HandleAPIError(kind, "")
    /\ UNCHANGED <<registry_tags, pull_tag>>
    /\ UNCHANGED <<gvars, hvars, uvars, fvars, dvars, lvars, mvars, tvars>>

\* lines 393-441: the 'Digest' line that closes the segment. With layer ids
\* gathered, the image is looked for in the engine: found, its record is
\* appended; not found, an APIError is raised (lines 402-404)
DigestLine ==
    /\ rpc = "streaming"
    /\ stream_tok = NoLayerLine
          \/ (stream_tok >= 0 /\ stream_tok = Len(AnnouncedIds(registry_tags[stream_tag])))
    /\ IF pull_layer_ids # ""
       THEN \E indexed \in BOOLEAN :
               IF indexed
               THEN /\ repo_images' =
                          AppendRecord(repo_images,
                                       RepositoryRecord(pull_layer_ids, pull_tag,
                                                        registry_tags[stream_tag]))
                    /\ pull_layer_ids' = ""
                    /\ stream_tok' = NoSegment
                    /\ UNCHANGED <<stream_tag, pull_trial, rpc>>
               ELSE HandleAPIError("misc", pull_layer_ids)
       ELSE /\ pull_layer_ids' = ""
            /\ stream_tok' = NoSegment
            /\ UNCHANGED <<repo_images, stream_tag, pull_trial, rpc>>
    /\ UNCHANGED <<registry_tags, pull_tag>>
    /\ UNCHANGED <<gvars, hvars, uvars, fvars, dvars, lvars, mvars, tvars>>

\* line 443: the stream is over and the loop is left
StreamEnd ==
    /\ rpc = "streaming"
    /\ stream_tok = NoSegment
    /\ stream_tag = Len(registry_tags)
    /\ rpc' = "returned"
    /\ UNCHANGED <<registry_tags, repo_images, pull_tag, pull_layer_ids, stream_tag,
                   stream_tok, pull_trial>>
    /\ UNCHANGED <<gvars, hvars, uvars, fvars, dvars, lvars, mvars, tvars>>

NextPullRepository ==
    \/ CallRepository
    \/ PullRequest
    \/ PullingFrom
    \/ LayerLine
    \/ ErrorLine
    \/ DigestLine
    \/ StreamEnd

SpecRepository == InitRepository /\ [][NextPullRepository]_vars

------------------------------------------------------------------------------
(* Properties of get_image_parent *)

IsPrefix(p, s) == Len(p) <= Len(s) /\ SubSeq(s, 1, Len(p)) = p

IsStrictPrefix(p, s) == IsPrefix(p, s) /\ Len(p) < Len(s)

\* the prefixes of a layer combination that end at a layer id boundary
TokenPrefixes(layers) ==
    {SubSeq(layers, 1, k * image_id_length) : k \in 1..(Len(layers) \div image_id_length)}

\* the records of the database as [repo, tag, layers], with their owner
Records(db) ==
    UNION {{[repo |-> db[i].name, tag |-> db[i].images[j].image_tag,
             layers |-> db[i].images[j].fs_layers] : j \in 1..Len(db[i].images)} :
           i \in 1..Len(db)}

\* the records of every repository other than the owning one whose layers
\* are a layer-id-boundary prefix of the target
Ancestors(db, owner, target) ==
    {rec \in Records(db) : rec.repo # owner /\ rec.layers \in TokenPrefixes(target)}

\* the records the result names
Named(db, par) == {rec \in Records(db) : rec.repo = par.name /\ rec.tag = par.tag}

\* C1: with a record A and a record B in two different repositories, neither
\* the owning one, A.layers a strict prefix of B.layers and B.layers a prefix
\* of the target, the result is not A: it names a record whose layers are at
\* least as long as B's, and B itself when no other record matches a prefix
\* of B's length or longer.
C1_LongestPrefixWins ==
    gpc = "return" =>
        \A A \in Ancestors(base_db, repository, image_layers) :
        \A B \in Ancestors(base_db, repository, image_layers) :
            (A.repo # B.repo /\ IsStrictPrefix(A.layers, B.layers)) =>
                /\ parent # <<>>
                /\ parent # [name |-> A.repo, tag |-> A.tag]
                /\ \A rec \in Named(base_db, parent) : Len(rec.layers) >= Len(B.layers)
                /\ (\A rec \in Ancestors(base_db, repository, image_layers) :
                        Len(rec.layers) >= Len(B.layers) => rec = B)
                   => parent = [name |-> B.repo, tag |-> B.tag]

C1_Witness ==
    /\ gpc = "return"
    /\ \E A \in Ancestors(base_db, repository, image_layers) :
       \E B \in Ancestors(base_db, repository, image_layers) :
            /\ A.repo # B.repo
            /\ IsStrictPrefix(A.layers, B.layers)
            /\ IsStrictPrefix(B.layers, image_layers)
            /\ IndexOf(Keys(base_db), B.repo) < IndexOf(Keys(base_db), A.repo)
            /\ parent = [name |-> B.repo, tag |-> B.tag]

\* C2: a database of one single record, layers L1 owned by R, queried with a
\* target L2 of which L1 is a strict prefix, from a repository other than R,
\* returns R and the record's tag.
C2_SingleRecordParent ==
    (/\ gpc = "return"
     /\ Len(base_db) = 1
     /\ Len(base_db[1].images) = 1
     /\ base_db[1].name # repository
     /\ IsStrictPrefix(base_db[1].images[1].fs_layers, image_layers))
    => parent = [name |-> base_db[1].name, tag |-> base_db[1].images[1].image_tag]

C2_Witness ==
    /\ gpc = "return"
    /\ Len(base_db) = 1
    /\ Len(base_db[1].images) = 1
    /\ base_db[1].name # repository
    /\ IsStrictPrefix(base_db[1].images[1].fs_layers, image_layers)
    /\ parent # <<>>

\* C3: the repository named in the result is never the owning repository.
C3_NeverOwnRepository ==
    (gpc = "return" /\ parent # <<>>) => parent.name # repository

C3_Witness ==
    /\ gpc = "return"
    /\ parent # <<>>
    /\ \E rec \in Records(base_db) :
            rec.repo = repository /\ rec.layers \in TokenPrefixes(image_layers)

\* C4: the result is empty exactly when no record of a repository other than
\* the owning one has layers equal to a layer-id-boundary prefix of the
\* target; otherwise it names a record of the database, of another
\* repository, whose layers are such a prefix.
C4_EmptyIffNoAncestor ==
    gpc = "return" =>
        /\ parent = <<>> <=> Ancestors(base_db, repository, image_layers) = {}
        /\ parent # <<>> =>
              \E rec \in Ancestors(base_db, repository, image_layers) :
                    rec.repo = parent.name /\ rec.tag = parent.tag

C4_Witness ==
    /\ gpc = "return"
    /\ parent # <<>>
    /\ \E rec \in Records(base_db) :
            rec.repo # repository /\ rec.layers \notin TokenPrefixes(image_layers)

C4_WitnessNone ==
    /\ gpc = "return"
    /\ parent = <<>>
    /\ base_db # <<>>

\* the database holds a record of layers `low` and, in another repository,
\* one of layers `high`, neither in the owning repository
HoldsBoth(low, high) ==
    \E a \in 1..Len(base_db), b \in 1..Len(base_db) :
        /\ a # b
        /\ base_db[a].name # repository
        /\ base_db[b].name # repository
        /\ base_db[a].images[1].fs_layers = low
        /\ base_db[b].images[1].fs_layers = high

\* the result is the record of layers `high`
NamesHolderOf(high) ==
    /\ parent # <<>>
    /\ \E b \in 1..Len(base_db) :
          /\ base_db[b].images[1].fs_layers = high
          /\ parent = [name |-> base_db[b].name, tag |-> base_db[b].images[1].image_tag]

\* C30 as stated: whatever the width of a layer token, with a record "aaa"
\* in A, a record "aaabbb" in B and the target "aaabbbccc" queried from a
\* third repository, the result is B.
C30_ExampleOfThreeCharacters ==
    (/\ gpc = "return"
     /\ HoldsBoth("aaa", "aaabbb")
     /\ image_layers = "aaabbbccc")
    => NamesHolderOf("aaabbb")

\* C30 amended: with layer tokens of 12 characters, a record of one token
\* in A, a record of that token and a second one in B and a target of these
\* two tokens and a third, queried from a third repository, the result is B.
C30_ExampleOfTwelveCharacters ==
    \A low \in Stacks(LongTokens), high \in Stacks(LongTokens) :
        (/\ gpc = "return"
         /\ Len(low) = image_id_length
         /\ Len(high) = 2 * image_id_length
         /\ Len(image_layers) = 3 * image_id_length
         /\ HoldsBoth(low, high)
         /\ IsPrefix(high, image_layers))
        => NamesHolderOf(high)

C30_Witness ==
    /\ gpc = "return"
    /\ HoldsBoth("aaaaaaaaaaaa", "aaaaaaaaaaaabbbbbbbbbbbb")
    /\ image_layers = "aaaaaaaaaaaabbbbbbbbbbbbcccccccccccc"
    /\ NamesHolderOf("aaaaaaaaaaaabbbbbbbbbbbb")
    /\ base_db[1].images[1].fs_layers = "aaaaaaaaaaaabbbbbbbbbbbb"

\* the places <<repository, record>> of the database whose record belongs
\* to another repository than the owning one and has layers equal to a
\* layer-id-boundary prefix of the target
MatchPlaces(db, owner, target) ==
    {place \in (1..Len(db)) \X (1..MaxRecs + 1) :
        /\ place[2] <= Len(db[place[1]].images)
        /\ db[place[1]].name # owner
        /\ db[place[1]].images[place[2]].fs_layers \in TokenPrefixes(target)}

\* those of them with the longest layers
LongestPlaces(db, owner, target) ==
    {place \in MatchPlaces(db, owner, target) :
        \A other \in MatchPlaces(db, owner, target) :
            Len(db[other[1]].images[other[2]].fs_layers)
                <= Len(db[place[1]].images[place[2]].fs_layers)}

\* met later in the scan: a later key, or a later record of the same key
MetLater(place, other) ==
    place[1] > other[1] \/ (place[1] = other[1] /\ place[2] > other[2])

\* C29: when records of different candidate repositories have layers equal
\* to the longest matching prefix of the target, the result is the one of
\* them met last in the scan: the record of the repository that comes later
\* in the key order of the database (and the later record within it).
C29_LaterMatchWins ==
    gpc = "return" =>
        \A place \in LongestPlaces(base_db, repository, image_layers) :
            (/\ \E other \in LongestPlaces(base_db, repository, image_layers) :
                    other[1] # place[1]
             /\ \A other \in LongestPlaces(base_db, repository, image_layers) :
                    other = place \/ MetLater(place, other))
            => parent = [name |-> base_db[place[1]].name,
                         tag |-> base_db[place[1]].images[place[2]].image_tag]

C29_Witness ==
    /\ gpc = "return"
    /\ \E place \in LongestPlaces(base_db, repository, image_layers) :
       \E other \in LongestPlaces(base_db, repository, image_layers) :
            /\ other[1] < place[1]
            /\ parent = [name |-> base_db[place[1]].name,
                         tag |-> base_db[place[1]].images[place[2]].image_tag]
            /\ parent.name # base_db[other[1]].name

------------------------------------------------------------------------------
(* Properties of get_layers_official_repository and update_official_database *)

\* no two records of the list carry the same layer combination
UniqueLayers(images) ==
    \A j \in 1..Len(images) : \A k \in 1..Len(images) :
        j # k => images[j].fs_layers # images[k].fs_layers

\* C5: the list get_layers_official_repository returns has one entry per
\* distinct layer combination, whatever the number and order of the tags
\* that share it.
C5_OneRecordPerContent == UniqueLayers(repository_images)

\* two tags of the repository publish the same content, both retrievable,
\* and the list returned for it holds a single record
C5_Witness ==
    /\ pc = "idle"
    /\ db_stamp # 0
    /\ ~changed
    /\ faults = 0
    /\ Len(hub["redis"]) = 2
    /\ hub["redis"][1].layers = hub["redis"][2].layers
    /\ hub["redis"][1].created # 0
    /\ hub["redis"][2].created # 0
    /\ Len(repository_images) = 1
    /\ db_file = <<[name |-> "redis", images |-> repository_images]>>

\* C6: no repository of the database, in the file or in memory, ever holds
\* two records with equal fs_layers, whatever the populations and update
\* passes that have run.
C6_UniqueLayersInDatabase ==
    /\ \A k \in 1..Len(db_file) : UniqueLayers(db_file[k].images)
    /\ \A k \in 1..Len(parent_db) : UniqueLayers(parent_db[k].images)

\* C7: a pass run against a hub that has not changed since the database was
\* built or last updated, with no request having failed, leaves the database
\* as it was, in memory and in the file: no record changed, added or removed.
C7_SyncIdempotent ==
    (pc # "idle" /\ ~changed /\ faults = 0) =>
        (parent_db = db_before /\ db_file = db_before)

\* the tags and the layer combinations the records of a list carry
StoredTags(images) == {images[j].image_tag : j \in 1..Len(images)}

StoredLayers(images) == {images[j].fs_layers : j \in 1..Len(images)}

\* the tag being processed is carried by no stored record, its layers equal
\* no stored record's layers and were not added earlier in the pass
BrandNew ==
    /\ pc = "add"
    /\ CurTag \notin StoredTags(CurImages)
    /\ new_image_layers \notin StoredLayers(CurImages)
    /\ new_image_layers \notin added_image_layers

\* the step leaves the repository with its records as they were, followed by
\* one new record with the tag and the layers being processed
AppendedNew ==
    /\ pc' # "idle"
    /\ LET after == Images(parent_db', CurRepo)
       IN  /\ Len(after) = Len(CurImages) + 1
           /\ SubSeq(after, 1, Len(CurImages)) = CurImages
           /\ after[Len(after)].image_tag = CurTag
           /\ after[Len(after)].fs_layers = new_image_layers

\* C8 as stated, for the runs in which no request fails: whenever the tag
\* being processed is carried by no stored record and its layers are neither
\* stored nor added earlier in the pass, a record with that tag and those
\* layers is appended and the stored records are kept.
C8_BrandNewAppended == [][(BrandNew /\ faults' = 0) => AppendedNew]_vars

\* C8, amended: the same, provided Docker Hub answers the tag's last_updated
\* and Microbadger lists the tag; the new record then carries those two times.
C8_BrandNewAppendedWhenListed ==
    [][(/\ BrandNew
        /\ result'.kind = "ok"
        /\ TagObject(hub[CurRepo], CurTag).created # 0)
       => /\ AppendedNew
          /\ LET after == Images(parent_db', CurRepo)
             IN  /\ after[Len(after)].last_updated =
                        TagObject(hub[CurRepo], CurTag).last_updated
                 /\ after[Len(after)].created = TagObject(hub[CurRepo], CurTag).created
          /\ new_image_layers \in added_image_layers']_vars

\* a pass has appended a record for a tag and for layers the file did not
\* hold, behind the records the file held
C8_Witness ==
    /\ pc = "tags"
    /\ db_before # <<>>
    /\ LET before == Images(db_before, CurRepo)
           after == CurImages
       IN  /\ before # <<>>
           /\ Len(after) = Len(before) + 1
           /\ SubSeq(after, 1, Len(before)) = before
           /\ after[Len(after)].image_tag \notin StoredTags(before)
           /\ after[Len(after)].fs_layers \notin StoredLayers(before)
           /\ after[Len(after)].fs_layers \in added_image_layers

\* the record the inner loop is at carries the tag being processed with
\* other layers than the tag now has
TagMoved ==
    /\ pc = "images"
    /\ img_pos <= Len(CurImages)
    /\ CurImages[img_pos].image_tag = CurTag
    /\ CurImages[img_pos].fs_layers # new_image_layers

\* the record the inner loop is at takes the layers and the time of the tag,
\* and no other record changes
ReplacedInPlace ==
    /\ pc' # "idle"
    /\ result'.kind = "ok"
    /\ Images(parent_db', CurRepo) =
            [CurImages EXCEPT ![img_pos] =
                [fs_layers |-> new_image_layers,
                 image_tag |-> CurTag,
                 last_updated |-> TagObject(hub[CurRepo], CurTag).last_updated,
                 created |-> CurImages[img_pos].created]]

\* the records of `images` that carry `tag`
Carrying(images, tag) == {j \in 1..Len(images) : images[j].image_tag = tag}

SameLayers ==
    /\ pc = "images"
    /\ img_pos <= Len(CurImages)
    /\ CurImages[img_pos].fs_layers = new_image_layers

\* C10: in the step that finds the layers of the tag being processed in a
\* stored record, no record is added or removed, no record but that one
\* changes, its fs_layers, image_tag and created are kept, and its
\* last_updated either stays or becomes the strictly greater time of the tag.
C10_OnlyTimestampRefreshed ==
    [][(SameLayers /\ pc' # "idle") =>
        LET after == Images(parent_db', CurRepo)
        IN  /\ Len(after) = Len(CurImages)
            /\ \A j \in 1..Len(CurImages) : j # img_pos => after[j] = CurImages[j]
            /\ after[img_pos].fs_layers = CurImages[img_pos].fs_layers
            /\ after[img_pos].image_tag = CurImages[img_pos].image_tag
            /\ after[img_pos].created = CurImages[img_pos].created
            /\ after[img_pos].last_updated >= CurImages[img_pos].last_updated
            /\ after[img_pos].last_updated # CurImages[img_pos].last_updated
               => /\ result'.kind = "ok"
                  /\ after[img_pos].last_updated = result'.last_updated
                  /\ after[img_pos].last_updated =
                        TagObject(hub[CurRepo], CurTag).last_updated]_vars

\* the layers of the tag being processed were found in a stored record, whose
\* timestamp was older and is now the tag's
C10_Witness ==
    /\ pc = "images"
    /\ img_pos > 1
    /\ is_image_updated
    /\ result.kind = "ok"
    /\ LET before == Images(db_before, CurRepo)
       IN  /\ Len(before) = Len(CurImages)
           /\ CurImages[img_pos - 1].fs_layers = new_image_layers
           /\ CurImages[img_pos - 1].last_updated = result.last_updated
           /\ before[img_pos - 1].fs_layers = new_image_layers
           /\ before[img_pos - 1].last_updated < result.last_updated
           /\ CurImages[img_pos - 1] =
                [before[img_pos - 1] EXCEPT !.last_updated = result.last_updated]

------------------------------------------------------------------------------
(* Properties of a pass over several repositories *)

\* every request made for the tags of a repository succeeds
AllOk == [tag \in SyncTags |-> "ok"]

\* the only requests that ever failed are those that left a repository out
\* of the catalog the pass retrieved
OnlyCatalogFailed == faults = Len(Catalog) - Len(new_repositories)

\* C11: when every repository of the database has been checked, every
\* repository of the catalog the pass retrieved that was no key of the
\* database at the start, and whose extraction yields a record, is a key of
\* the database, in memory and in the file, whatever the size of the catalog.
C11_DiscoveryComplete ==
    (pc = "rename" /\ OnlyCatalogFailed) =>
        \A repo \in Range(new_repositories) :
            (/\ repo \notin Range(Keys(db_before))
             /\ get_layers_official_repository(hub[repo], AllOk) # <<>>)
            => /\ repo \in Range(Keys(parent_db))
               /\ repo \in Range(Keys(db_file))

\* C12: a request of the tags API that fails while a repository is checked
\* and another repository is still to be checked does not end the pass: the
\* function keeps running, with the same repositories to check.
C12_FailureIsolated ==
    [][(/\ outcome = "running"
        /\ repo_pos < Len(repos)
        /\ faults' > faults
        /\ result'.kind = "failed")
       => (outcome' = "running" /\ repos' = repos)]_vars

\* C13: a call of update_official_database that could not read the database
\* file does not return normally.
C13_ReadFailureNotSwallowed == ~(outcome = "returned" /\ ~loaded)

\* the records of a list that carry `tag`, under any layers
WithTag(images, tag) == {j \in 1..Len(images) : images[j].image_tag = tag}

\* C14: while a pass runs and when it is over, every record the file held
\* when the pass started is still in the repository, in memory and in the
\* file, or the repository holds a record for the same tag that supersedes it.
C14_NoRecordLost ==
    pc \in {"vcheck", "vrename"} =>
        \A k \in 1..Len(db_before) :
            LET repo == db_before[k].name
                before == db_before[k].images
            IN  /\ repo \in Range(Keys(parent_db))
                /\ repo \in Range(Keys(db_file))
                /\ \A j \in 1..Len(before) :
                        /\ WithTag(Images(parent_db, repo), before[j].image_tag) # {}
                        /\ WithTag(Images(db_file, repo), before[j].image_tag) # {}

------------------------------------------------------------------------------
(* Properties of the database file *)

\* C15: the file written repository by repository with
\* write_dict_element_to_file is the text json.dumps gives for the database
\* and loads to the database, keys and records in their order; written back
\* with json.dumps and loaded again, it still gives that database.
C15_PersistenceRoundTrip ==
    /\ (gpc = "appending" /\ written = Len(base_db)) => data = json_dumps(base_db)
    /\ gpc \in {"loaded", "reloaded"} => (reloaded.ok /\ reloaded.db = base_db)
    /\ gpc = "dumped" => data = json_dumps(base_db)

\* two repositories, one of them with two records, were written one after
\* the other, loaded, written back and loaded again
C15_Witness ==
    /\ gpc = "reloaded"
    /\ written = 2
    /\ Len(base_db) = 2
    /\ Len(base_db[1].images) + Len(base_db[2].images) = MaxRecs
    /\ reloaded.ok
    /\ Len(reloaded.db) = 2
    /\ reloaded.db[1].name = base_db[1].name
    /\ reloaded.db[2].images = base_db[2].images

------------------------------------------------------------------------------
(* Properties of verify_duplicates *)

\* the records of the other repositories with the layers of record j of
\* repository k
TwinsElsewhere(db, k, j) ==
    {img \in UNION {Range(db[other].images) : other \in (1..Len(db)) \ {k}} :
        img.fs_layers = db[k].images[j].fs_layers}

\* C16: a record with an equal-layers record of strictly smaller `created`
\* in another repository is flagged; a record whose `created` is the
\* smallest among the equal-layers records of all repositories is not.
C16_NewerDuplicateFlagged ==
    (pc = "verified" /\ loaded) =>
        \A k \in 1..Len(base_db) : \A j \in 1..Len(base_db[k].images) :
            LET image == base_db[k].images[j]
            IN  /\ (\E img \in TwinsElsewhere(base_db, k, j) : img.created < image.created)
                       => <<base_db[k].name, j>> \in non_parents
                /\ (\A img \in TwinsElsewhere(base_db, k, j) : image.created <= img.created)
                       => <<base_db[k].name, j>> \notin non_parents

\* foo and bar hold the same layers, created at 100 in foo and at 200 in
\* bar: bar's record is flagged and foo's is not
C16_Witness ==
    /\ pc = "verified"
    /\ loaded
    /\ Len(base_db[1].images) = 1
    /\ Len(base_db[2].images) = 1
    /\ base_db[1].images[1].fs_layers = base_db[2].images[1].fs_layers
    /\ base_db[1].images[1].created = 100
    /\ base_db[2].images[1].created = 200
    /\ <<"bar", 1>> \in non_parents
    /\ <<"foo", 1>> \notin non_parents

------------------------------------------------------------------------------
(* Properties of get_layers_image *)

\* every attempt of the call ended in the else branch of lines 215-218
AllTransient == ends # <<>> /\ \A k \in 1..Len(ends) : ends[k] = "failed"

\* the ids of a sequence, one after the other
RECURSIVE Concatenated(_)
Concatenated(ids) == IF ids = <<>> THEN "" ELSE Head(ids) \o Concatenated(Tail(ids))

\* C17, as stated: when every attempt ends in a transient failure the pull
\* is attempted 5 times, with the delay between consecutive attempts, and the
\* empty result is returned.
C17_FiveAttempts ==
    (caller = "image" /\ ppc = "returned" /\ AllTransient) =>
        /\ Len(ends) = retrials
        /\ slept = (retrials - 1) * retrials_wait_time
        /\ layer_ids = ""

\* C17, amended: when every attempt ends in a transient failure the pull is
\* attempted 4 times, with the delay of 30 seconds between consecutive
\* attempts, and the empty result is returned; a fifth pull is never
\* attempted and the call always ends.
C17_FourAttempts ==
    /\ [](Len(ends) <= retrials - 1)
    /\ []((caller = "image" /\ ppc = "returned" /\ AllTransient) =>
            /\ Len(ends) = retrials - 1
            /\ slept = (retrials - 2) * retrials_wait_time
            /\ layer_ids = "")
    /\ <>(ppc \in {"returned", "raised"})

\* four attempts failed one after the other and the call returned
C17_Witness ==
    /\ ppc = "returned"
    /\ caller = "image"
    /\ ends = <<"failed", "failed", "failed", "failed">>
    /\ slept = 90
    /\ layer_ids = ""

\* C18: on an incompatible-platform signal get_layers_image makes no further
\* attempt and returns an empty layer sequence, never the ids announced
\* before the signal.
C18_PlatformYieldsEmpty ==
    (caller = "image" /\ ends # <<>> /\ ends[Len(ends)] = "platform") =>
        /\ ppc = "returned"
        /\ layer_ids = ""

\* C19: once the stream of an attempt yielded 'Downloading', no further event
\* is consumed, no further attempt is started and the result holds no id
\* announced after it.
C19_StopsAtDownloading ==
    [][is_retrieved =>
          /\ consumed' = consumed
          /\ ends' = ends
          /\ ppc' # "stream"
          /\ layer_ids' = layer_ids
          /\ announced' = announced]_vars

\* ids were announced, 'Downloading' followed before the streams' events
\* were used up, and the call returned the ids
C19_Witness ==
    /\ ppc = "returned"
    /\ is_retrieved
    /\ Len(announced) = 2
    /\ announced[1] # announced[2]
    /\ layer_ids = Concatenated(announced)
    /\ consumed = MaxLines
    /\ retrial < retrials - 1

\* C20: the layers get_layers_image returns are the ids of one single
\* attempt in the order they were announced, never those of two attempts
\* one after the other.
C20_SingleAttempt ==
    (caller = "image" /\ ppc = "returned") =>
        layer_ids \in {"", Concatenated(announced)}

------------------------------------------------------------------------------
(* Properties of the choice of the database file *)

\* C21: the file chosen for a class is the one whose name encodes the most
\* recent timestamp among the files present, whatever their modification
\* times.
C21_MostRecentName ==
    (mpc = "selected" /\ files # <<>>) =>
        \A k \in 1..Len(files) : files[k].stamp <= parent_file.stamp

------------------------------------------------------------------------------
(* Properties of the database file across a pass *)

\* C22: a pass ends with the database under a name carrying the completion
\* time, obtained by renaming the input file, and no step of the pass
\* changes the contents of the file while it still has its old name.
C22_NeverInPlace ==
    [][/\ (pc = "rename" /\ pc' = "idle") => (db_stamp' = clock /\ db_file' = db_file)
       /\ (db_stamp # 0 /\ db_file' # db_file) => db_stamp' # db_stamp]_vars

------------------------------------------------------------------------------
(* Properties of the experiment *)

\* C23: no image updated upstream after the time of the database is ever
\* downloaded by the thread or has its parent looked for, whatever list the
\* thread was started with, the list of the identified parents included.
C23_NewerNeverLookedUp ==
    \A image \in downloaded \cup {pair[1] : pair \in resolved} :
        upstream[image].updated <= db_last_updated_time

\* the lookups of the image against the official database completed
AnalyzedWithLayers(image) ==
    /\ faults = 0
    /\ image \in downloaded_image_layers
    /\ <<image, "official">> \in resolved

\* C24: for verified and certified experiments the verified database is
\* queried when the official one gave no match, and its match becomes the
\* parent; for official and community experiments it is never queried.
C24_FallbackToVerified ==
    \A image \in ListedImages :
        /\ (/\ experiment_type \in {"verified", "certified"}
            /\ AnalyzedWithLayers(image)
            /\ upstream[image].official_parent = "")
               => /\ <<image, "verified">> \in resolved
                  /\ [name |-> image, parent |-> Tagged(upstream[image].verified_parent)]
                        \in analyzed_images
        /\ experiment_type \in {"official", "community"}
               => <<image, "verified">> \notin resolved

------------------------------------------------------------------------------
(* Properties of get_layers_verified_repository *)

\* C25: the list get_layers_verified_repository returns has pairwise
\* distinct fs_layers, also when two tags publish the same layers and also
\* when the pull is retried after a login-required error.
C25_DistinctLayersReturned ==
    rpc = "returned" =>
        \A j, k \in 1..Len(repo_images) :
            repo_images[j].fs_layers = repo_images[k].fs_layers => j = k

------------------------------------------------------------------------------
(* Properties of update_verified_database *)

\* the latest tag of the hub is stored for the repository under check, with
\* layers that are no longer those of the hub, which no stored record has
StoredTagIsStale ==
    /\ pc = "vcheck"
    /\ CurRepo \in Range(new_repositories)
    /\ hub[CurRepo] # <<>>
    /\ \E j \in 1..Len(CurImages) :
          /\ CurImages[j].image_tag = hub[CurRepo][1].name
          /\ CurImages[j].fs_layers # hub[CurRepo][1].layers
    /\ \A j \in 1..Len(CurImages) : CurImages[j].fs_layers # hub[CurRepo][1].layers

\* C26: when the latest tag is stored but the layers extracted for it differ
\* from the stored record's and equal no stored record's, the check of the
\* repository, when no request of it fails, leaves the record of that tag
\* with the new layers.
C26_StaleTagReplaced ==
    [][(/\ StoredTagIsStale
        /\ repo_pos' = repo_pos + 1
        /\ faults' = faults
        /\ new_image_layers' = hub[CurRepo][1].layers)
          => \E j \in 1..Len(Images(parent_db', CurRepo)) :
                /\ Images(parent_db', CurRepo)[j].image_tag = hub[CurRepo][1].name
                /\ Images(parent_db', CurRepo)[j].fs_layers = hub[CurRepo][1].layers]_vars

------------------------------------------------------------------------------
(* Properties of the thresholds of update_official_database *)

\* the highest last_updated among the first m records, 0 when there is none
Highest(list, m) ==
    CHOOSE top \in {0} \cup {list[j].last_updated : j \in 1..m} :
        \A j \in 1..m : list[j].last_updated <= top

\* the records among the first m that are not newer than all before them
NotRaising(list, m) ==
    {k \in 1..m : list[k].last_updated <= Highest(list, k - 1)}

\* the last record the scan reads: the one with which the records that did
\* not raise the maximum become `threshold`, or the last of the list
ScanEnd(list) ==
    IF \E m \in 1..Len(list) : Cardinality(NotRaising(list, m)) = threshold
    THEN CHOOSE m \in 1..Len(list) :
            /\ Cardinality(NotRaising(list, m)) = threshold
            /\ \A lower \in 1..(m - 1) : Cardinality(NotRaising(list, lower)) < threshold
    ELSE Len(list)

\* the check of a repository has just compared the tag's time with the
\* watermark of the repository
Compared == pc = "check" /\ pc' \in {"tags", "write"}

\* C27 as stated: the watermark of a repository is the maximum last_updated
\* among at most its first 30 stored records, so a repository is found stale
\* exactly when the time of its latest tag is later than that maximum.
C27_WindowOfThirty ==
    [][Compared =>
          (pc' = "tags" <=>
              result'.last_updated > Highest(CurImages, Min(threshold, Len(CurImages))))]_vars

\* C27 amended: the watermark is the maximum last_updated among the records
\* the scan reads, and the scan stops at the end of the list or once 30 of
\* the records read did not raise the running maximum; the records after
\* that one never change the watermark.
C27_WatermarkOfScan ==
    [][Compared =>
          (pc' = "tags" <=>
              result'.last_updated > Highest(CurImages, ScanEnd(CurImages)))]_vars

C27_Witness ==
    /\ pc = "write"
    /\ new_repository_tags = <<>>
    /\ Len(CurImages) > threshold
    /\ ScanEnd(CurImages) > threshold
    /\ Highest(CurImages, ScanEnd(CurImages)) > Highest(CurImages, threshold)
    /\ result.last_updated > Highest(CurImages, threshold)

\* the tags extracted so far in the pass whose layers the database held
\* when the pass began
KnownTags ==
    {k \in 1..tag_pos :
        \E j \in 1..Len(Images(db_before, CurRepo)) :
            Images(db_before, CurRepo)[j].fs_layers
                = TagObject(hub[CurRepo], new_repository_tags[k]).layers}

\* get_layers_image has just returned the layers of the tag at tag_pos
JustExtracted == pc = "images" /\ img_pos = 1

\* C28 as stated: at most 30 tags of a stale repository are re-extracted in
\* one pass, whatever the number of tags and the share of them that changed.
C28_ThirtyTagsExtracted ==
    JustExtracted => tag_pos <= non_updated_threshold

\* C28 amended: at most 30 of the tags re-extracted in one pass have layers
\* the database already holds; the tags that are new or changed do not count
\* and all of them are re-extracted.
C28_ThirtyKnownTagsExtracted ==
    JustExtracted => Cardinality(KnownTags) <= non_updated_threshold

C28_Witness ==
    /\ pc = "write"
    /\ n = non_updated_threshold
    /\ tag_pos <= Len(new_repository_tags)
    /\ tag_pos > non_updated_threshold + 1

------------------------------------------------------------------------------
(* Properties of the error handling of the pulls *)

\* C31: after a 'docker login' error in get_layers_image no further pull
\* attempt is made in the same call.
C31_LoginNotRetried ==
    [][(caller = "image" /\ ppc = "loop" /\ "login" \in Range(ends))
          => ppc' # "stream"]_vars

------------------------------------------------------------------------------
(* Properties of the persistence during a pass *)

\* C32: at every point between two repositories of a sync pass, and after
\* the last one, the file holds exactly the database in memory, the new
\* repositories and the changes of the stale ones included; after a
\* population the file ends with the records of the last repository that
\* gave any.
C32_FileFollowsMemory ==
    /\ pc \in {"check", "rename"} => db_file = parent_db
    /\ (pc = "idle" /\ db_stamp # 0 /\ outcome = "none" /\ repository_images # <<>>)
          => (db_file # <<>> /\ db_file[Len(db_file)].images = repository_images)

\* a new repository was added and a stale one was changed before the
\* repository now to be checked
C32_Witness ==
    /\ pc = "check"
    /\ repo_pos = 2
    /\ Len(db_before) = 1
    /\ Len(db_file) = 2
    /\ db_file[1].images # db_before[1].images
    /\ db_file = parent_db

(* Properties of the interruption of an experiment *)
\* C33: once main has received the interrupt of the operator and requested
\* the thread to stop, the thread starts no download of a further image of
\* its list.
C33_NoDownloadAfterAbort ==
    [][(thread_exit /\ tpc = "running") => downloaded' \subseteq downloaded]_vars

(* Properties of the layers the thread hands to the analysis *)
\* the images main analyses and removes in the step
Picked == IF thread_exit' THEN {} ELSE downloaded \ downloaded'

\* C36: when the analysis picks up an image whose pull has finished, the
\* layers of the image are recorded in downloaded_image_layers already.
\* Stated for the image whose pull of line 212 has just returned, the one
\* pull whose layers the thread does record.
C36_LayersRecordedWhenPicked ==
    [][\A image \in Picked :
          (tpc = "storing" /\ thread_images[image_pos] = image)
             => image \in downloaded_image_layers]_vars

\* C38: an image the thread downloaded, at once or in a retrial, has its
\* layers recorded in downloaded_image_layers when the thread moves on to
\* the next image.
C38_DownloadRecorded ==
    [][(/\ tpc \in {"running", "storing"}
        /\ image_pos' = image_pos + 1
        /\ thread_images' = thread_images
        /\ tpc = "storing" \/ thread_images[image_pos] \in downloaded' \ downloaded)
          => thread_images[image_pos] \in downloaded_image_layers']_vars

(* Properties of the end of an experiment *)
\* C37: the pipeline terminates: the thread is restarted for parents only
\* finitely often and the scanning loop ends, also when two repositories
\* hold records with the same layers and each is the parent of the other.
C37_ScanningEnds == <>(tpc \in {"finished", "exited"})

(* Properties of the segments of a repository pull *)
\* the layer ids the stream announced in the segment that is open
SegmentIds ==
    IF stream_tok = NoLayerLine THEN "" ELSE registry_tags[stream_tag].layers

\* C34: each record of get_layers_verified_repository carries the tag of
\* the 'Pulling from' line that opened its segment and, as fs_layers,
\* exactly the layer ids announced between that line and the Digest line
\* of the segment: no id of an earlier segment or of an earlier attempt
\* that failed.
C34_RecordIsItsSegment ==
    [][Len(repo_images') = Len(repo_images) + 1
          => /\ repo_images'[Len(repo_images')].image_tag = registry_tags[stream_tag].name
             /\ repo_images'[Len(repo_images')].fs_layers = SegmentIds]_vars

C34_Witness ==
    /\ rpc = "returned"
    /\ pull_trial >= 2
    /\ Len(repo_images) = 2
    /\ repo_images[1].fs_layers = "aaaaaaaaaaaa"
    /\ repo_images[2].fs_layers = "aaaaaaaaaaaabbbbbbbbbbbb"

WellFormed(record) ==
    /\ DOMAIN record = {"fs_layers", "image_tag", "last_updated", "created"}
    /\ record.fs_layers # ""
    /\ record.created # 0

AllWellFormed(db) ==
    \A k \in 1..Len(db) : \A j \in 1..Len(db[k].images) : WellFormed(db[k].images[j])

\* C39: every record that population or sync stores in a database has
\* layers and carries image_tag, last_updated and created; a tag whose
\* layers could not be extracted, or whose lookups of the times failed,
\* leaves no record.
C39_RecordsWellFormed ==
    /\ AllWellFormed(parent_db)
    /\ AllWellFormed(db_file)

\* a new repository was retrieved, a request for one of its tags failed and
\* the repository is stored with the records of the other tags only
C39_Witness ==
    /\ faults > 0
    /\ \E k \in 1..Len(parent_db) :
          LET tagobjs == hub[parent_db[k].name]
          IN  /\ parent_db[k].name \notin Range(Keys(db_before))
              /\ Len(parent_db[k].images) >= 1
              /\ Len(parent_db[k].images) < Len(tagobjs)
              /\ \A a, b \in 1..Len(tagobjs) :
                    tagobjs[a].layers = tagobjs[b].layers => a = b
              /\ AllWellFormed(db_file)

(* Properties of a pass that is aborted *)
\* C40: when a pass of update_official_database or update_verified_database
\* is ended by an error, the file keeps its name with the old time, so the
\* time main reads from the name does not advance.
C40_AbortKeepsName ==
    [][(pc \notin {"idle", "rename", "vrename"} /\ pc' = "idle")
          => db_stamp' = db_stamp]_vars

C40_Witness ==
    /\ pc = "idle"
    /\ outcome = "returned"
    /\ loaded
    /\ faults > 0
    /\ db_stamp # 0
    /\ db_stamp < clock
    /\ db_file # <<>>

====
